---- MODULE Spec2Model ----
(***************************************************************************)
(* geomodels.wmmf: the World Magnetic Model Format codec.                  *)
(*                                                                         *)
(* MetaData (the text header), SphCoeffSet packing (the binary blocks) and *)
(* WmmData (the pair of files) are modelled from src/geomodels/wmmf.py.    *)
(*                                                                         *)
(* Text.  A Python str is a sequence of symbols.  A symbol is one          *)
(* character ("#", " ", a digit, a letter ...), or a run of characters of  *)
(* a literal of the program that holds no "#" and no white space at either *)
(* end ("WMMF-", "Description", the default URL ...): the parser never     *)
(* looks inside such a run.  Name and ID, whose length and characters the  *)
(* program inspects, are spelt one character per symbol.  No string holds  *)
(* a line break, and a text file is the sequence of its lines.             *)
(*                                                                         *)
(* Files.  A file is NoFile (the path does not exist) or File(data): a     *)
(* text for the .wmm file, a sequence of cells for the .wmm.cof file (a    *)
(* cell is one byte of the ID, one little-endian int32 or one float64).    *)
(***************************************************************************)
EXTENDS Integers, Sequences, FiniteSets, TLC

VARIABLES
    metadata,        \* WmmData.metadata / the MetaData object under test
    coeffs,          \* WmmData.coeffs: the ordered mapping, a sequence of [key, set]
    local_metadata,  \* a second MetaData object, loaded from the text file
    made,            \* what WmmData.from_metadata_and_coeffs returned, or None
    txtfile,         \* the metadata text file (<name>.wmm)
    binfile,         \* the binary coefficient file (<name>.wmm.cof)
    cset,            \* a SphCoeffSet handed to _save_sph_coeff_set
    lset,            \* the SphCoeffSet _load_sph_coeff_set returned, or None
    outcome,         \* the last operation and how it ended
    path,            \* the argument of import_igrf_txt: a URL scheme and a file name
    io,              \* the streams the last operation opened and those it left open
    returned,        \* what the last call of get_years, get_id or cli.test returned
    environ,         \* os.environ: the value of GEOGRAPHICLIB_DATA, or Unset
    installed,       \* the models found in the data directory
    downloaded       \* the URLs install has downloaded

vars ==
    <<metadata, coeffs, local_metadata, made, txtfile, binfile, cset, lset, outcome, path, io,
      returned, environ, installed, downloaded>>

\* A path that does not exist, and the file holding data at a path that does.
NoFile == [exists |-> FALSE, data |-> <<>>]
File(data) == [exists |-> TRUE, data |-> data]
None == [none |-> TRUE]
NoError == "none"
\* No path given, and no stream touched.
NoPath == [scheme |-> "", name |-> <<>>]
NoIO == [opened |-> {}, open |-> {}, lines |-> 0]
\* The environment variable is not set.
Unset == [unset |-> TRUE]

\* Body at the value of e: e is evaluated once and its value bound, as a local
\* variable of the code is.
With(e, Body(_)) == CHOOSE r \in {Body(x) : x \in {e}} : TRUE

\* ------------------------------------------------------------------ bounds

\* NumModels ranges over 0..MaxModels.
MaxModels == 2
\* Coefficient matrices have degree at most MaxDeg (shape up to (MaxDeg+1) x (MaxDeg+1)).
MaxDeg == 2
\* An IGRF header carries at most MaxYears year labels.
MaxYears == 3
\* A hand-written metadata file has at most MaxLines lines after its first.
MaxLines == 2

\* ------------------------------------------------------------------- text

Digits == <<"0", "1", "2", "3", "4", "5", "6", "7", "8", "9">>
LowerCase == <<"a", "b", "c", "d", "e", "f", "g", "h", "i", "j", "k", "l", "m",
               "n", "o", "p", "q", "r", "s", "t", "u", "v", "w", "x", "y", "z">>
UpperCase == <<"A", "B", "C", "D", "E", "F", "G", "H", "I", "J", "K", "L", "M",
               "N", "O", "P", "Q", "R", "S", "T", "U", "V", "W", "X", "Y", "Z">>

IsSpace(c) == c \in {" ", "\t"}

Spaces(n) == [i \in 1..n |-> " "]

\* The index of the first symbol of s, from i on, that is c (is white space); 0 when
\* there is none.
RECURSIVE Find(_, _, _)
Find(s, c, i) == IF i > Len(s) THEN 0 ELSE IF s[i] = c THEN i ELSE Find(s, c, i + 1)

RECURSIVE FindSpace(_, _)
FindSpace(s, i) == IF i > Len(s) THEN 0 ELSE IF IsSpace(s[i]) THEN i ELSE FindSpace(s, i + 1)

IsDigit(c) == Find(Digits, c, 1) # 0
DigitVal(c) == Find(Digits, c, 1) - 1

\* str.upper()
Upper(s) ==
    [i \in 1..Len(s) |->
        IF Find(LowerCase, s[i], 1) = 0 THEN s[i] ELSE UpperCase[Find(LowerCase, s[i], 1)]]

\* s.startswith(p)
StartsWith(s, p) == Len(s) >= Len(p) /\ SubSeq(s, 1, Len(p)) = p

\* s[-2:]
LastTwo(s) == IF Len(s) <= 2 THEN s ELSE SubSeq(s, Len(s) - 1, Len(s))

RECURSIVE NatStr(_)
NatStr(n) ==
    IF n < 10 THEN <<Digits[n + 1]>>
    ELSE NatStr(n \div 10) \o <<Digits[(n % 10) + 1]>>

\* str(i) of an int, also its rendering in an f-string
IntStr(i) == IF i < 0 THEN <<"-">> \o NatStr(-i) ELSE NatStr(i)

\* str.rstrip(), str.strip()
RECURSIVE RStrip(_)
RStrip(s) ==
    IF Len(s) > 0 /\ IsSpace(s[Len(s)]) THEN RStrip(SubSeq(s, 1, Len(s) - 1)) ELSE s

RECURSIVE LStrip(_)
LStrip(s) == IF Len(s) > 0 /\ IsSpace(s[1]) THEN LStrip(Tail(s)) ELSE s

Strip(s) == LStrip(RStrip(s))

RECURSIVE DigitsVal(_)
DigitsVal(d) ==
    IF Len(d) = 0 THEN 0
    ELSE 10 * DigitsVal(SubSeq(d, 1, Len(d) - 1)) + DigitVal(d[Len(d)])

\* int(s): white space around the number and a sign are accepted; anything else is
\* a ValueError (ok = FALSE).
StrInt(s) ==
    LET t == Strip(s)
        signed == Len(t) > 0 /\ t[1] \in {"-", "+"}
        d == IF signed THEN Tail(t) ELSE t
    IN  IF Len(d) = 0 \/ \E i \in 1..Len(d) : ~IsDigit(d[i])
        THEN [ok |-> FALSE, val |-> 0]
        ELSE [ok |-> TRUE, val |-> IF t[1] = "-" THEN -DigitsVal(d) ELSE DigitsVal(d)]

\* line.split('#', 1)[0]
BeforeHash(s) == IF Find(s, "#", 1) = 0 THEN s ELSE SubSeq(s, 1, Find(s, "#", 1) - 1)

\* line.split(None, 1) of a stripped, non-empty line: the first word and what follows
\* the white space after it; one word only gives parts = 1 (the unpacking into
\* (name, value) then raises ValueError).
SplitFirst(l) ==
    LET i == FindSpace(l, 1)
    IN  IF i = 0 THEN [parts |-> 1, name |-> l, value |-> <<>>]
        ELSE [parts |-> 2, name |-> SubSeq(l, 1, i - 1), value |-> LStrip(SubSeq(l, i, Len(l)))]

\* str.split(): the words of s, separated by runs of white space.
RECURSIVE Split(_)
Split(s) ==
    With(LStrip(s), LAMBDA t :
        IF t = <<>> THEN <<>>
        ELSE With(FindSpace(t, 1), LAMBDA i :
                 IF i = 0 THEN <<t>>
                 ELSE <<SubSeq(t, 1, i - 1)>> \o Split(SubSeq(t, i, Len(t)))))

\* A float is held as its number of tenths (10.3 is 103): the numerals of the model
\* have at most one decimal and every year is a whole number, so that the sums and
\* differences the program takes are exact in float64 too.
\* float(s): an optional sign, digits, and optionally a point and one digit;
\* anything else is a ValueError (ok = FALSE).
StrFloat(s) ==
    LET dot == Find(s, ".", 1)
        whole == IF dot = 0 THEN s ELSE SubSeq(s, 1, dot - 1)
        frac == IF dot = 0 THEN <<>> ELSE SubSeq(s, dot + 1, Len(s))
        w == StrInt(whole)
        f == IF frac = <<>> THEN 0 ELSE DigitVal(frac[1])
    IN  IF s = <<>> \/ IsSpace(s[1]) \/ ~w.ok \/ Len(frac) > 1
           \/ (Len(frac) = 1 /\ ~IsDigit(frac[1]))
        THEN [ok |-> FALSE, val |-> 0]
        ELSE [ok |-> TRUE, val |-> IF s[1] = "-" THEN 10 * w.val - f ELSE 10 * w.val + f]

\* A float taken for an int without conversion.
FloatTenths(t) == t

\* int(x) of a float: truncation towards zero.
FloatInt(t) == IF t < 0 THEN -((-t) \div 10) ELSE t \div 10

\* --------------------------------------------------------------- MetaData

NA == <<"N", "/", "A">>
DefaultDescription == <<"International Geomagnetic Reference Field">>
DefaultURL == <<"http://ngdc.noaa.gov/IAGA/vmod/igrf.html">>
DefaultPublisher == <<"International Association of Geomagnetism and Aeronomy">>

\* The dataclass fields (those __eq__ compares), by declared type.
StrFields == {"Name", "Description", "URL", "Publisher", "ReleaseDate", "DataCutOff",
              "ConversionDate", "ID"}
IntFields == {"DataVersion", "Radius", "NumModels", "Epoch", "DeltaEpoch", "MinTime",
              "MaxTime", "MinHeight", "MaxHeight", "NumConstants", "Normalization",
              "N", "M", "FORMAT_VERSION"}
DataFields == StrFields \cup IntFields
\* Class attributes without annotation: not dataclass fields, not callable.
ClassAttrs == {"Type", "ByteOrder", "_DATEFMT"}
\* Callable attributes of a MetaData object.
Methods == {"load", "get_years", "_generation_str", "get_id", "save",
            "__str__", "__init__", "__repr__", "__eq__"}

\* MetaData(): every field at its default.
DefaultMetaData ==
    ("_DATEFMT" :> <<"%Y-%m-%d">>) @@
    [Name |-> NA,
     Description |-> DefaultDescription,
     URL |-> DefaultURL,
     Publisher |-> DefaultPublisher,
     ReleaseDate |-> NA,
     DataCutOff |-> NA,
     ConversionDate |-> NA,
     DataVersion |-> 1,
     Radius |-> 6371200,
     NumModels |-> 0,
     Epoch |-> 1900,
     DeltaEpoch |-> 5,
     MinTime |-> 0,
     MaxTime |-> 0,
     MinHeight |-> -1000,
     MaxHeight |-> 600000,
     NumConstants |-> 0,
     Normalization |-> 1,
     ID |-> NA,
     Type |-> <<"linear">>,
     ByteOrder |-> <<"little">>,
     N |-> 0,
     M |-> 0,
     FORMAT_VERSION |-> 1]

\* The dataclass __eq__: equality of the declared fields.
MetaEq(a, b) == \A f \in DataFields : a[f] = b[f]

\* range(start, stop, step) as a list; step = 0 is a ValueError (ok = FALSE).
RECURSIVE RangeFrom(_, _, _)
RangeFrom(start, stop, step) ==
    IF (step > 0 /\ start >= stop) \/ (step < 0 /\ start <= stop) THEN <<>>
    ELSE <<start>> \o RangeFrom(start + step, stop, step)

Range(start, stop, step) ==
    IF step = 0 THEN [ok |-> FALSE, list |-> <<>>]
    ELSE [ok |-> TRUE, list |-> RangeFrom(start, stop, step)]

\* get_years with the end of the range one past the last epoch.
get_years_inclusive(md) ==
    Range(md.Epoch, md.Epoch + md.DeltaEpoch * md.NumModels + 1, md.DeltaEpoch)

\* MetaData.get_years
get_years(md) == Range(md.Epoch, md.Epoch + md.DeltaEpoch * md.NumModels, md.DeltaEpoch)

\* MetaData._generation_str; int(Name[-2:]) may raise ValueError (ok = FALSE).
generation_str(md) ==
    IF md.Name # <<>> /\ md.Name # NA
    THEN LET p == StrInt(LastTwo(md.Name))
             g == IntStr(p.val - 1)
         IN  IF ~p.ok THEN [ok |-> FALSE, s |-> <<>>]
             ELSE IF g = <<"1">> THEN [ok |-> TRUE, s |-> g \o <<"st Generation">>]
             ELSE IF g = <<"2">> THEN [ok |-> TRUE, s |-> g \o <<"nd Generation">>]
             ELSE IF g = <<"3">> THEN [ok |-> TRUE, s |-> g \o <<"rd Generation">>]
             ELSE [ok |-> TRUE, s |-> g \o <<"th Generation">>]
    ELSE [ok |-> TRUE, s |-> <<>>]

\* The ID field as it is, whatever it holds.
get_id_raw(md) == md.ID

\* MetaData.get_id
get_id(md) ==
    IF md.ID = <<>> \/ md.ID = NA
    THEN IF ~StartsWith(md.Name, <<"i", "g", "r", "f">>) \/ Len(md.Name) # 6
         THEN NA
         ELSE Upper(md.Name) \o <<"-", "A">>
    ELSE md.ID

\* One "Label<padding>value" line of the rendering.
FieldLine(label, pad, value) == <<label>> \o Spaces(pad) \o value

\* The description __str__ renders.
RenderedDescription(md) ==
    IF md.Description = DefaultDescription
    THEN md.Description \o <<" ">> \o generation_str(md).s
    ELSE md.Description

\* MetaData.__str__, line by line: ok = FALSE when _generation_str raises.
MetaStr(md) ==
    [ok |-> md.Description = DefaultDescription => generation_str(md).ok,
     text |->
        <<<<"WMMF-">> \o IntStr(md.FORMAT_VERSION),
          <<"#", " ", "A World Magnetic Model (Format", " ">> \o IntStr(md.FORMAT_VERSION)
              \o <<") file.  For documentation on the">>,
          <<"#", " ", "format of this file see">>,
          <<"#", " ", "http://geographiclib.sf.net/html/magnetic.html", "#", "magneticformat">>,
          FieldLine("Name", 12, md.Name),
          FieldLine("Description", 5, RenderedDescription(md)),
          FieldLine("URL", 13, md.URL),
          FieldLine("Publisher", 7, md.Publisher),
          FieldLine("ReleaseDate", 5, md.ReleaseDate),
          FieldLine("DataCutOff", 6, md.DataCutOff),
          FieldLine("ConversionDate", 2, md.ConversionDate),
          FieldLine("DataVersion", 5, IntStr(md.DataVersion)),
          FieldLine("Radius", 10, IntStr(md.Radius)),
          FieldLine("NumModels", 7, IntStr(md.NumModels)),
          FieldLine("Epoch", 11, IntStr(md.Epoch)),
          FieldLine("DeltaEpoch", 6, IntStr(md.DeltaEpoch)),
          FieldLine("MinTime", 9, IntStr(md.MinTime)),
          FieldLine("MaxTime", 9, IntStr(md.MaxTime)),
          FieldLine("MinHeight", 7, IntStr(md.MinHeight)),
          FieldLine("MaxHeight", 7, IntStr(md.MaxHeight)),
          <<>>,
          <<"#", " ", "The coefficients are stored in a file obtained by appending \".cof\" to">>,
          <<"#", " ", "the name of this file.  The coefficients were obtained from", " ">>
              \o Upper(md.Name) \o <<".COF">>,
          <<"#", " ", "in the geomag70 distribution.">>,
          FieldLine("ID", 14, get_id(md))>>]

\* MetaData.save: open(filename, 'w') creates or truncates the file before str(self)
\* is evaluated, so a rendering that raises leaves an empty file behind.
MetaSave(md) ==
    LET r == MetaStr(md)
    IN  IF r.ok THEN [err |-> NoError, file |-> File(r.text)]
        ELSE [err |-> "ValueError", file |-> File(<<>>)]

\* hasattr(self, name), callable(getattr(self, name))
HasAttr(md, name) ==
    Len(name) = 1 /\ (name[1] \in DOMAIN md \/ name[1] \in Methods)
Callable(name) == Len(name) = 1 /\ name[1] \in Methods

\* One line of the body of a metadata file (the for loop of MetaData.load): the
\* object after it, the error it raised and the warning it issued.
LoadLine(md, line) ==
    LET l == Strip(BeforeHash(line))
        p == SplitFirst(l)
    IN  IF l = <<>> THEN [md |-> md, err |-> NoError, warn |-> <<>>]
        ELSE IF p.parts # 2 THEN [md |-> md, err |-> "ValueError", warn |-> <<>>]
        ELSE IF ~HasAttr(md, p.name)
        THEN [md |-> md, err |-> NoError, warn |-> <<[unexpected |-> p.name]>>]
        ELSE IF Callable(p.name)
        THEN [md |-> md, err |-> NoError, warn |-> <<[conflict |-> p.name]>>]
        ELSE IF p.name[1] \in IntFields
        THEN IF StrInt(p.value).ok
             THEN [md |-> [md EXCEPT ![p.name[1]] = StrInt(p.value).val],
                   err |-> NoError, warn |-> <<>>]
             ELSE [md |-> md, err |-> "ValueError", warn |-> <<>>]
        ELSE [md |-> [md EXCEPT ![p.name[1]] = p.value], err |-> NoError, warn |-> <<>>]

RECURSIVE LoadLines(_, _, _)
LoadLines(md, lines, warns) ==
    IF lines = <<>> THEN [md |-> md, err |-> NoError, warns |-> warns]
    ELSE With(LoadLine(md, lines[1]), LAMBDA r :
             IF r.err # NoError THEN [md |-> r.md, err |-> r.err, warns |-> warns]
             ELSE LoadLines(r.md, Tail(lines), warns \o r.warn))

\* A load that starts from the defaults of MetaData() instead of the object's fields.
MetaLoadFresh(md, file) ==
    IF ~file.exists THEN [md |-> md, err |-> "FileNotFoundError", warns |-> <<>>]
    ELSE IF file.data = <<>> THEN [md |-> md, err |-> "StopIteration", warns |-> <<>>]
    ELSE IF RStrip(file.data[1]) \notin {<<"WMMF-", "1">>, <<"WMMF-", "2">>}
    THEN [md |-> md, err |-> "RuntimeError", warns |-> <<>>]
    ELSE LoadLines([DefaultMetaData EXCEPT
                       !.FORMAT_VERSION = StrInt(<<RStrip(file.data[1])[2]>>).val],
                   Tail(file.data), <<>>)

\* MetaData.load: the object is updated in place, line by line, so an error leaves
\* the assignments of the lines before it.
MetaLoad(md, file) ==
    IF ~file.exists THEN [md |-> md, err |-> "FileNotFoundError", warns |-> <<>>]
    ELSE LET lines == file.data
             format == IF lines = <<>> THEN <<>> ELSE RStrip(lines[1])
         IN  IF lines = <<>> THEN [md |-> md, err |-> "StopIteration", warns |-> <<>>]
             ELSE IF format \notin {<<"WMMF-", "1">>, <<"WMMF-", "2">>}
             THEN [md |-> md, err |-> "RuntimeError", warns |-> <<>>]
             ELSE LoadLines([md EXCEPT !.FORMAT_VERSION = StrInt(<<format[Len(format)]>>).val],
                            Tail(lines), <<>>)

\* ------------------------------------------------------------ SphCoeffSet

\* A numpy array: its shape and its entries, indexed from 0.  A matrix of
\* coefficients has shape <<N + 1, M + 1>> and entry a[<<d, o>>] for degree d, order o.
Indices(shape) ==
    IF Len(shape) = 2 THEN (0..(shape[1] - 1)) \X (0..(shape[2] - 1))
    ELSE {<<i>> : i \in 0..(shape[1] - 1)}

\* np.zeros(shape)
Zeros(shape) == [shape |-> shape, a |-> [ij \in Indices(shape) |-> 0]]

Abs(x) == IF x < 0 THEN -x ELSE x
Max(S) == CHOOSE x \in S : \A y \in S : y <= x

RECURSIVE SumTo(_, _)
\* f[0] + ... + f[k - 1]
SumTo(f, k) == IF k = 0 THEN 0 ELSE SumTo(f, k - 1) + f[k - 1]

RECURSIVE Flatten(_)
Flatten(ss) == IF ss = <<>> THEN <<>> ELSE ss[1] \o Flatten(Tail(ss))

\* np.triu_indices(n, k, m): the (row, column) pairs of an n x m array on or above
\* its k-th diagonal, in row-major order.
TriuIndices(n, k, m) ==
    Flatten([r1 \in 1..n |->
        LET r == r1 - 1
            first == IF r + k > 0 THEN r + k ELSE 0
        IN  [i \in 1..(IF m > first THEN m - first ELSE 0) |-> <<r, first + i - 1>>]])

\* The cells of the binary file.
Byte(c) == [k |-> "byte", v |-> c]
I32(i) == [k |-> "i32", v |-> i]
F64(x) == [k |-> "f64", v |-> x]

\* The effective size of _save_sph_coeff_set: from the sums of |C| + |S| along
\* axis 0 and along axis 1; [-1] of an empty index array is an IndexError.
EffectiveSize(cs) ==
    LET rows == cs.C.shape[1]
        cols == cs.C.shape[2]
        M == [ij \in Indices(cs.C.shape) |-> Abs(cs.C.a[ij]) + Abs(cs.S.a[ij])]
        sum0 == [j \in 0..(cols - 1) |-> SumTo([i \in 0..(rows - 1) |-> M[<<i, j>>]], rows)]
        sum1 == [i \in 0..(rows - 1) |-> SumTo([j \in 0..(cols - 1) |-> M[<<i, j>>]], cols)]
        where0 == {j \in 0..(cols - 1) : sum0[j] > 0}
        where1 == {i \in 0..(rows - 1) : sum1[i] > 0}
    IN  IF where0 = {} \/ where1 = {} THEN [ok |-> FALSE, n |-> 0, m |-> 0]
        ELSE LET n == Max(where0)
                 m == Max(where1)
             IN  [ok |-> TRUE, n |-> n, m |-> IF m > n THEN n ELSE m]

\* coeffs.C[np.triu_indices(m + 1, 0, n + 1)]: C indexed without the transposition.
PackC_NoTranspose(C, n, m) ==
    LET idx == TriuIndices(m + 1, 0, n + 1)
    IN  [i \in 1..Len(idx) |-> C.a[<<idx[i][1], idx[i][2]>>]]

\* coeffs.C.T[np.triu_indices(m + 1, 0, n + 1)]
PackC(C, n, m) ==
    LET idx == TriuIndices(m + 1, 0, n + 1)
    IN  [i \in 1..Len(idx) |-> C.a[<<idx[i][2], idx[i][1]>>]]

\* coeffs.S.T[1:, 1:][np.triu_indices(m, 0, n)]
PackS(S, n, m) ==
    LET idx == TriuIndices(m, 0, n)
    IN  [i \in 1..Len(idx) |-> S.a[<<idx[i][2] + 1, idx[i][1] + 1>>]]

\* WmmData._save_sph_coeff_set: the cells written to fd, or the error raised before
\* anything is written.
save_sph_coeff_set(cs) ==
    IF Len(cs.C.shape) # 2 THEN [err |-> "TypeError", cells |-> <<>>]
    ELSE IF cs.C.shape # cs.S.shape THEN [err |-> "ValueError", cells |-> <<>>]
    ELSE IF cs.C.shape[2] - 1 > cs.C.shape[1] - 1 THEN [err |-> "TypeError", cells |-> <<>>]
    ELSE LET e == EffectiveSize(cs)
             dc == PackC(cs.C, e.n, e.m)
             ds == PackS(cs.S, e.n, e.m)
         IN  IF ~e.ok THEN [err |-> "IndexError", cells |-> <<>>]
             ELSE [err |-> NoError,
                   cells |-> <<I32(e.n), I32(e.m)>>
                             \o [i \in 1..Len(dc) |-> F64(dc[i])]
                             \o [i \in 1..Len(ds) |-> F64(ds[i])]]

\* np.fromfile(fd, count = nc): the next nc items, or those left when there are fewer.
FromFile(rest, nc) == SubSeq(rest, 1, IF nc < Len(rest) THEN nc ELSE Len(rest))

\* A[idx] = data: element by element, one value broadcast to every position, and a
\* ValueError (ok = FALSE) for any other length.
Assign(A, pos, data) ==
    IF Len(data) # Len(pos) /\ Len(data) # 1 THEN [ok |-> FALSE, A |-> A]
    ELSE [ok |-> TRUE,
          A |-> [A EXCEPT !.a = [ij \in DOMAIN A.a |->
                    IF \E i \in 1..Len(pos) : pos[i] = ij
                    THEN LET i == CHOOSE k \in 1..Len(pos) : pos[k] = ij
                         IN  IF Len(data) = 1 THEN data[1].v ELSE data[i].v
                    ELSE A.a[ij]]]]

\* C.T[np.triu_indices(m + 1, 0, n + 1)] = data on C = np.zeros((n + 1, m + 1))
UnpackC(n, m, data) ==
    LET idx == TriuIndices(m + 1, 0, n + 1)
    IN  Assign(Zeros(<<n + 1, m + 1>>), [i \in 1..Len(idx) |-> <<idx[i][2], idx[i][1]>>], data)

\* S.T[1:, 1:][np.triu_indices(m, 0, n)] = data on S = np.zeros((n + 1, m + 1))
UnpackS(n, m, data) ==
    LET idx == TriuIndices(m, 0, n)
    IN  Assign(Zeros(<<n + 1, m + 1>>),
               [i \in 1..Len(idx) |-> <<idx[i][2] + 1, idx[i][1] + 1>>], data)

\* WmmData._load_sph_coeff_set on the cells left in fd: the set read and the cells
\* left after it.  Fewer than 8 bytes for (n, m) is a struct.error; a size no array
\* can have, or data that does not fit the triangle, is a ValueError.
load_sph_coeff_set(rest) ==
    IF Len(rest) < 2 \/ rest[1].k # "i32" \/ rest[2].k # "i32"
    THEN [err |-> "struct.error", set |-> None, rest |-> rest]
    ELSE LET n == rest[1].v
             m == rest[2].v
             ncC == ((m + 1) * (2 * n - m + 2)) \div 2
             ncS == (m * (2 * n - m + 1)) \div 2
             r1 == SubSeq(rest, 3, Len(rest))
             dC == FromFile(r1, ncC)
             r2 == SubSeq(r1, Len(dC) + 1, Len(r1))
             dS == FromFile(r2, ncS)
             r3 == SubSeq(r2, Len(dS) + 1, Len(r2))
         IN  IF n < 0 \/ m < 0 \/ ncC < 0 \/ ncS < 0
             THEN [err |-> "ValueError", set |-> None, rest |-> rest]
             ELSE With(UnpackC(n, m, dC), LAMBDA c :
                  With(UnpackS(n, m, dS), LAMBDA s :
                      IF ~c.ok \/ ~s.ok
                      THEN [err |-> "ValueError", set |-> None, rest |-> rest]
                      ELSE [err |-> NoError, set |-> [C |-> c.A, S |-> s.A], rest |-> r3]))

\* ---------------------------------------------------------------- WmmData

\* The keys of the ordered mapping: str(year), spelt in digits, and the literal 'rate'.
RateKey == <<"rate">>
Keys(co) == [i \in 1..Len(co) |-> co[i].key]

\* [str(year) for year in years]
YearKeys(years) == [i \in 1..Len(years) |-> IntStr(years[i])]

\* WmmData._check: the error it raises, or NoError.  years.pop() of an empty key
\* list is an IndexError; get_years() raises ValueError when DeltaEpoch is 0.
check(md, co) ==
    LET keys == Keys(co)
        years == SubSeq(keys, 1, Len(keys) - 1)
    IN  IF Len(keys) = 0 THEN "IndexError"
        ELSE IF keys[Len(keys)] # RateKey THEN "RuntimeError"
        ELSE IF ~get_years(md).ok THEN "ValueError"
        ELSE IF years # YearKeys(get_years(md).list) THEN "RuntimeError"
        ELSE NoError

\* WmmData.from_metadata_and_coeffs: the object returned (its metadata and coeffs
\* are the arguments themselves), or the error of _check.
from_metadata_and_coeffs(md, co) ==
    IF check(md, co) = NoError
    THEN [err |-> NoError, wmmdata |-> [metadata |-> md, coeffs |-> co]]
    ELSE [err |-> check(md, co), wmmdata |-> None]

\* The loop of _save_sph_coeffs: the sets are written in the mapping's order; a set
\* that raises ends the loop, with the blocks of the sets before it already written.
RECURSIVE SaveSets(_, _)
SaveSets(co, written) ==
    IF co = <<>> THEN [err |-> NoError, file |-> File(written)]
    ELSE With(save_sph_coeff_set(co[1].set), LAMBDA r :
             IF r.err # NoError THEN [err |-> r.err, file |-> File(written)]
             ELSE SaveSets(Tail(co), written \o r.cells))

\* id_.encode('utf-8')
IdBytes(id) == [i \in 1..Len(id) |-> Byte(id[i])]

\* WmmData._save_sph_coeffs: the ID is checked before the file is opened.
save_sph_coeffs(md, co, file) ==
    IF Len(get_id(md)) # 8 THEN [err |-> "ValueError", file |-> file]
    ELSE SaveSets(co, IdBytes(get_id(md)))

\* An existence check of the metadata path alone.
AlreadyExistsTextOnly(force, txt, bin) == ~force /\ txt.exists

\* The existence checks of WmmData.save.
AlreadyExists(force, txt, bin) == ~force /\ (txt.exists \/ bin.exists)

\* WmmData.save: the two files after the call and the error raised.  The metadata
\* file is written first, the binary file after it.
WmmSave(md, co, txt, bin, force) ==
    IF AlreadyExists(force, txt, bin) THEN [err |-> "RuntimeError", txt |-> txt, bin |-> bin]
    ELSE With(MetaSave(md), LAMBDA t :
             IF t.err # NoError THEN [err |-> t.err, txt |-> t.file, bin |-> bin]
             ELSE With(save_sph_coeffs(md, co, bin), LAMBDA b :
                      [err |-> b.err, txt |-> t.file, bin |-> b.file]))

\* fd.read(8).decode('utf-8'): the first 8 bytes of the file, fewer when it is shorter.
ReadId(data) ==
    [i \in 1..(IF Len(data) < 8 THEN Len(data) ELSE 8) |->
        IF data[i].k = "byte" THEN data[i].v ELSE "?"]

\* A comparison that accepts every embedded ID.
IdMatchesAlways(id, md) == TRUE

\* The comparison of the embedded ID with the metadata in _load_sph_coeffs.
IdMatches(id, md) == id = md.ID

\* The loop of _load_sph_coeffs over the keys, 'rate' last.
RECURSIVE LoadSets(_, _, _)
LoadSets(keys, rest, data) ==
    IF keys = <<>> THEN [err |-> NoError, data |-> data]
    ELSE With(load_sph_coeff_set(rest), LAMBDA r :
             IF r.err # NoError THEN [err |-> r.err, data |-> data]
             ELSE LoadSets(Tail(keys), r.rest, data \o <<[key |-> keys[1], set |-> r.set]>>))

\* WmmData._load_sph_coeffs: the mapping read, or the error raised.
load_sph_coeffs(md, file) ==
    IF ~get_years(md).ok THEN [err |-> "ValueError", data |-> <<>>]
    ELSE IF ~file.exists THEN [err |-> "FileNotFoundError", data |-> <<>>]
    ELSE IF ~IdMatches(ReadId(file.data), md) THEN [err |-> "RuntimeError", data |-> <<>>]
    ELSE LoadSets(YearKeys(get_years(md).list) \o <<RateKey>>,
                  SubSeq(file.data, Len(ReadId(file.data)) + 1, Len(file.data)), <<>>)

\* A load that puts the metadata back when the binary file cannot be read.
WmmLoadAtomic(md, co, txt, bin) ==
    With(MetaLoad(md, txt), LAMBDA t :
        IF t.err # NoError
        THEN [err |-> t.err, metadata |-> t.md, coeffs |-> co, warns |-> t.warns]
        ELSE With(load_sph_coeffs(t.md, bin), LAMBDA b :
            IF b.err # NoError
            THEN [err |-> b.err, metadata |-> md, coeffs |-> co, warns |-> t.warns]
            ELSE [err |-> check(t.md, b.data), metadata |-> t.md, coeffs |-> b.data,
                  warns |-> t.warns]))

\* WmmData.load: self.metadata is loaded in place, then self.coeffs is replaced when
\* the binary file has been read, then _check.
WmmLoad(md, co, txt, bin) ==
    With(MetaLoad(md, txt), LAMBDA t :
        IF t.err # NoError
        THEN [err |-> t.err, metadata |-> t.md, coeffs |-> co, warns |-> t.warns]
        ELSE With(load_sph_coeffs(t.md, bin), LAMBDA b :
            IF b.err # NoError
            THEN [err |-> b.err, metadata |-> t.md, coeffs |-> co, warns |-> t.warns]
            ELSE [err |-> check(t.md, b.data), metadata |-> t.md, coeffs |-> b.data,
                  warns |-> t.warns]))

\* --------------------------------------------------------- import_igrf_txt

\* A pattern that every name matches.
PatternAny(name) == TRUE

\* fnmatch.fnmatch(filename.name, 'igrf[0-9][0-9]coeffs.txt').  A file name is a
\* sequence of symbols: the runs "igrf", "coeffs", ".txt" and single characters.
PatternMatches(name) ==
    /\ Len(name) = 5
    /\ name[1] = "igrf"
    /\ IsDigit(name[2])
    /\ IsDigit(name[3])
    /\ name[4] = "coeffs"
    /\ name[5] = ".txt"

\* filename.stem[:-6] of a matching name, spelt character by character.
StemName(name) == <<"i", "g", "r", "f", name[2], name[3]>>

\* [b - a for a, b in zip(years[1:], years[:-1])]
DYears(years) == [i \in 1..(Len(years) - 1) |-> years[i] - years[i + 1]]

\* _metadata_from_txt_header(header), on the day `today`: the metadata or the error.
\* max() of an empty list of differences is a ValueError.
metadata_from_txt_header(header, today) ==
    With(Split(header), LAMBDA parts :
        IF SubSeq(parts, 1, IF Len(parts) < 3 THEN Len(parts) ELSE 3)
              # <<<<"g/h">>, <<"n">>, <<"m">>>>
        THEN [err |-> "ValueError", md |-> None]
        ELSE IF Find(parts[Len(parts)], "-", 1) = 0
        THEN [err |-> "ValueError", md |-> None]
        ELSE With([i \in 1..(Len(parts) - 4) |-> StrFloat(parts[i + 3])], LAMBDA fl :
            IF \E i \in 1..Len(fl) : ~fl[i].ok THEN [err |-> "ValueError", md |-> None]
            ELSE With([i \in 1..Len(fl) |-> fl[i].val], LAMBDA years :
                IF Len(years) < 2 THEN [err |-> "ValueError", md |-> None]
                ELSE IF \E i, j \in 1..(Len(years) - 1) : DYears(years)[i] # DYears(years)[j]
                THEN [err |-> "RuntimeError", md |-> None]
                ELSE [err |-> NoError,
                      md |-> [DefaultMetaData EXCEPT
                                !.ConversionDate = today,
                                !.NumModels = Len(years),
                                !.Epoch = FloatInt(years[1]),
                                !.DeltaEpoch = FloatInt(years[2] - years[1]),
                                !.MinTime = FloatInt(years[1]),
                                !.MaxTime = FloatInt(years[Len(years)])
                                               + FloatInt(years[2] - years[1])]])))

\* The index of the header among the lines: the first line that starts with 'g/h';
\* 0 when there is none.  Lines that start with '#', and any other line, are passed.
RECURSIVE HeaderIndex(_, _)
HeaderIndex(lines, i) ==
    IF i > Len(lines) THEN 0
    ELSE IF StartsWith(lines[i], <<"g/h">>) THEN i
    ELSE HeaderIndex(lines, i + 1)

\* One row of np.loadtxt with the structured dtype of ncols columns: the record
\* (type, n, m, the values in tenths), ok = FALSE for a row that cannot be converted.
ParseRow(words, ncols) ==
    IF Len(words) # ncols THEN [ok |-> FALSE]
    ELSE With([i \in 1..(ncols - 3) |-> StrFloat(words[i + 3])], LAMBDA fl :
        IF ~StrInt(words[2]).ok \/ ~StrInt(words[3]).ok \/ \E i \in 1..Len(fl) : ~fl[i].ok
        THEN [ok |-> FALSE]
        ELSE [ok |-> TRUE, type |-> words[1][1], n |-> StrInt(words[2]).val,
              m |-> StrInt(words[3]).val, v |-> [i \in 1..Len(fl) |-> fl[i].val]])

\* np.loadtxt(fd, dtype): the rows of the lines left, comments and blank lines passed.
RECURSIVE LoadTxt(_, _)
LoadTxt(lines, ncols) ==
    IF lines = <<>> THEN [ok |-> TRUE, rows |-> <<>>]
    ELSE With(Split(BeforeHash(lines[1])), LAMBDA words :
        With(LoadTxt(Tail(lines), ncols), LAMBDA rest :
            IF words = <<>> THEN rest
            ELSE With(ParseRow(words, ncols), LAMBDA row :
                IF ~row.ok \/ ~rest.ok THEN [ok |-> FALSE, rows |-> <<>>]
                ELSE [ok |-> TRUE, rows |-> <<row>> \o rest.rows])))

\* A[rows['n'], rows['m']] with the entries indexed by degree and order swapped.
ScatterTransposed(shape, rows, type, col) ==
    [shape |-> shape,
     a |-> [ij \in Indices(shape) |->
              LET hits == {k \in 1..Len(rows) :
                              rows[k].type = type /\ rows[k].n = ij[2] /\ rows[k].m = ij[1]}
              IN  IF hits = {} THEN 0 ELSE rows[Max(hits)].v[col]]]

\* A = np.zeros(shape); A[rows['n'], rows['m']] = rows[col] for the rows of a type:
\* the last row that names a position gives its value.
Scatter(shape, rows, type, col) ==
    [shape |-> shape,
     a |-> [ij \in Indices(shape) |->
              LET hits == {k \in 1..Len(rows) :
                              rows[k].type = type /\ rows[k].n = ij[1] /\ rows[k].m = ij[2]}
              IN  IF hits = {} THEN 0 ELSE rows[Max(hits)].v[col]]]

\* The mapping import_igrf_txt builds from the rows: one entry per year, then 'rate'.
ImportedCoeffs(years, rows) ==
    LET shape == <<Max({rows[k].n : k \in 1..Len(rows)}) + 1,
                   Max({rows[k].m : k \in 1..Len(rows)}) + 1>>
    IN  [j \in 1..(Len(years) + 1) |->
            [key |-> IF j <= Len(years) THEN IntStr(years[j]) ELSE RateKey,
             set |-> [C |-> Scatter(shape, rows, "g", j), S |-> Scatter(shape, rows, "h", j)]]]

\* The stream import_igrf_txt reads: open(filename) for the schemes '' and 'file',
\* urlopen(path), whose lines are bytes, for any other.
IsLocal(scheme) == scheme \in {"", "file"}

\* import_igrf_txt(path) with the resource at path and the date of the day: the model
\* returned or the error raised, the streams opened and the number of lines read.
\* bytes.startswith('#') on the first line of a urlopen stream is a TypeError.
import_igrf_txt(p, resource, today) ==
    IF ~PatternMatches(p.name)
    THEN [err |-> "ValueError", wmmdata |-> None, opened |-> {}, lines |-> 0]
    ELSE IF ~resource.exists
    THEN [err |-> IF IsLocal(p.scheme) THEN "FileNotFoundError" ELSE "URLError",
          wmmdata |-> None, opened |-> {}, lines |-> 0]
    ELSE IF ~IsLocal(p.scheme)
    THEN IF resource.data = <<>>
         THEN [err |-> "RuntimeError", wmmdata |-> None, opened |-> {"igrf"}, lines |-> 0]
         ELSE [err |-> "TypeError", wmmdata |-> None, opened |-> {"igrf"}, lines |-> 1]
    ELSE With(HeaderIndex(resource.data, 1), LAMBDA h :
        IF h = 0
        THEN [err |-> "RuntimeError", wmmdata |-> None, opened |-> {"igrf"},
              lines |-> Len(resource.data)]
        ELSE With(metadata_from_txt_header(resource.data[h], today), LAMBDA hd :
            IF hd.err # NoError
            THEN [err |-> hd.err, wmmdata |-> None, opened |-> {"igrf"}, lines |-> h]
            ELSE With([hd.md EXCEPT !.Name = StemName(p.name)], LAMBDA md :
                IF ~get_years(md).ok
                THEN [err |-> "ValueError", wmmdata |-> None, opened |-> {"igrf"}, lines |-> h]
                ELSE With(LoadTxt(SubSeq(resource.data, h + 1, Len(resource.data)),
                                  3 + Len(get_years(md).list) + 1), LAMBDA t :
                    IF ~t.ok \/ t.rows = <<>>
                    THEN [err |-> "ValueError", wmmdata |-> None, opened |-> {"igrf"},
                          lines |-> Len(resource.data)]
                    ELSE With(from_metadata_and_coeffs(
                                  md, ImportedCoeffs(get_years(md).list, t.rows)), LAMBDA w :
                        [err |-> w.err, wmmdata |-> w.wmmdata, opened |-> {"igrf"},
                         lines |-> Len(resource.data)])))))

\* ---------------------------------------------------------------- streams

\* The streams left open when the with blocks that hold them are left with err.
StillOpenOnError(opened, err) == IF err = NoError THEN {} ELSE opened

\* The streams left open when the with blocks that hold them are left: __exit__
\* closes the stream on the normal path and on every exception.
StillOpen(opened, err) == {}

\* The record of the streams of an operation that opened `opened` and ended with err.
\* lines counts the lines import_igrf_txt read; the other operations leave it 0.
Streams(opened, err) == [opened |-> opened, open |-> StillOpen(opened, err), lines |-> 0]

\* MetaData.load: open(filename) raises for a path that does not exist.
MetaLoadOpened(txt) == IF txt.exists THEN {"txt"} ELSE {}

\* WmmData.save: the metadata file is opened after the existence checks, the binary
\* file after the metadata is written and the ID is checked.
SaveOpened(md, txt, bin, force) ==
    IF AlreadyExists(force, txt, bin) THEN {}
    ELSE IF MetaSave(md).err = NoError /\ Len(get_id(md)) = 8 THEN {"txt", "bin"}
    ELSE {"txt"}

\* WmmData.load: the binary file is opened after the metadata is loaded and
\* get_years() has returned.
LoadOpened(md, txt, bin) ==
    With(MetaLoad(md, txt), LAMBDA t :
        MetaLoadOpened(txt) \cup
        (IF t.err = NoError /\ get_years(t.md).ok /\ bin.exists THEN {"bin"} ELSE {}))

\* ----------------------------------------------------------------- inputs

Igrf12 == <<"i", "g", "r", "f", "1", "2">>
Igrf04 == <<"i", "g", "r", "f", "0", "4">>
Wmm == <<"w", "m", "m">>
Igrf12Id == <<"I", "G", "R", "F", "1", "2", "-", "A">>
Igrf11Id == <<"I", "G", "R", "F", "1", "1", "-", "A">>
SevenId == <<"A", "B", "C", "D", "E", "F", "G">>
\* An ID of 8 characters, one of them '#'.
HashId == <<"I", "G", "R", "F", "#", "1", "2", "A">>

\* A matrix from its rows.
Mat(rows) ==
    [shape |-> <<Len(rows), Len(rows[1])>>,
     a |-> [ij \in (0..(Len(rows) - 1)) \X (0..(Len(rows[1]) - 1)) |-> rows[ij[1] + 1][ij[2] + 1]]]

\* Coefficient sets: degree 0; degree 1 and order 1; degree 1 and order 0 (the highest
\* degree above the highest order); a 3 x 3 pair whose last row and column are zero;
\* all zero; C and S of different shapes; degree 2 and order 2, every coefficient
\* different.
SetOne == [C |-> Mat(<<<<1>>>>), S |-> Mat(<<<<0>>>>)]
SetFull == [C |-> Mat(<<<<1, 0>>, <<2, -3>>>>), S |-> Mat(<<<<0, 0>>, <<0, 4>>>>)]
SetTall == [C |-> Mat(<<<<5>>, <<6>>>>), S |-> Mat(<<<<0>>, <<0>>>>)]
SetPadded == [C |-> Mat(<<<<1, 0, 0>>, <<2, 3, 0>>, <<0, 0, 0>>>>),
              S |-> Mat(<<<<0, 0, 0>>, <<0, -4, 0>>, <<0, 0, 0>>>>)]
SetZero == [C |-> Mat(<<<<0, 0>>, <<0, 0>>>>), S |-> Mat(<<<<0, 0>>, <<0, 0>>>>)]
SetUneven == [C |-> Mat(<<<<1, 0>>, <<2, 3>>>>), S |-> Mat(<<<<0>>, <<0>>>>)]
SetDeg2 == [C |-> Mat(<<<<1, 0, 0>>, <<2, 3, 0>>, <<4, 5, 6>>>>),
            S |-> Mat(<<<<0, 0, 0>>, <<0, 7, 0>>, <<0, 8, 9>>>>)]

\* The set a pattern puts at position j of a mapping.
Patterns == {"full", "tall", "padded", "zero", "uneven", "deg2"}
PatternSet(p, j) ==
    CASE p = "full" -> IF j % 2 = 1 THEN SetFull ELSE SetOne
      [] p = "tall" -> IF j % 2 = 1 THEN SetOne ELSE SetTall
      [] p = "padded" -> SetPadded
      [] p = "zero" -> IF j = 1 THEN SetFull ELSE SetZero
      [] p = "uneven" -> IF j = 1 THEN SetUneven ELSE SetOne
      [] p = "deg2" -> IF j = 1 THEN SetDeg2 ELSE SetOne

\* The mapping with the keys ks, filled by pattern p.
Mapping(ks, p) == [j \in 1..Len(ks) |-> [key |-> ks[j], set |-> PatternSet(p, j)]]

\* The keys of a consistent model of k epochs from 1900, every 5 years.
ModelKeys(k) == [j \in 1..(k + 1) |-> IF j = k + 1 THEN RateKey ELSE IntStr(1900 + 5 * (j - 1))]

\* The models of the WmmData specification: WmmData() and the mappings of 0..MaxModels
\* epochs; metadata varying in Name, ID, NumModels and DeltaEpoch.
ModelMappings ==
    {<<>>} \cup {Mapping(ModelKeys(k), "full") : k \in 0..MaxModels}
           \cup {Mapping(ModelKeys(1), p) : p \in Patterns}
ModelMetas ==
    {[DefaultMetaData EXCEPT !.Name = n, !.ID = i, !.NumModels = 1] :
        n \in {NA, Igrf12, Wmm}, i \in {NA, Igrf12Id, SevenId, HashId}}
    \cup {[DefaultMetaData EXCEPT !.Name = Igrf12, !.ID = i, !.NumModels = k, !.DeltaEpoch = d] :
             i \in {NA, Igrf12Id}, k \in 0..MaxModels, d \in {0, 5}}

\* Files found on disk before the program runs: none; a metadata file written by
\* hand, without ID line; the files of igrf11 with one epoch; a binary file cut
\* short; a binary file holding its ID only; an empty binary file.
HandText ==
    <<<<"WMMF-", "2">>, FieldLine("Name", 1, Igrf12), FieldLine("NumModels", 1, <<"1">>)>>
Igrf11Meta ==
    [DefaultMetaData EXCEPT !.Name = <<"i", "g", "r", "f", "1", "1">>, !.ID = Igrf11Id,
                            !.NumModels = 1]
Igrf11Text == File(MetaStr(Igrf11Meta).text)
Igrf11Bin == SaveSets(Mapping(ModelKeys(1), "full"), IdBytes(Igrf11Id)).file.data
Igrf12Bin == SaveSets(Mapping(ModelKeys(1), "tall"), IdBytes(Igrf12Id)).file
\* The pairs <<text file, binary file>> found on disk.
ExternalFiles ==
    {<<NoFile, NoFile>>,
     <<NoFile, Igrf12Bin>>,
     <<File(HandText), Igrf12Bin>>,
     <<File(HandText), File(IdBytes(NA))>>,
     <<File(HandText), File(<<>>)>>,
     <<Igrf11Text, NoFile>>,
     <<Igrf11Text, File(Igrf11Bin)>>,
     <<Igrf11Text, File(SubSeq(Igrf11Bin, 1, Len(Igrf11Bin) - 1))>>,
     <<Igrf11Text, Igrf12Bin>>}

Start == [op |-> "start", err |-> NoError, force |-> FALSE, warns |-> <<>>]

\* ------------------------------------------- specification Spec: WmmData

Init ==
    /\ metadata \in ModelMetas
    /\ coeffs \in ModelMappings
    /\ \E f \in ExternalFiles : txtfile = f[1] /\ binfile = f[2]
    /\ local_metadata = DefaultMetaData
    /\ made = None
    /\ cset = None
    /\ lset = None
    /\ outcome = Start
    /\ path = NoPath
    /\ io = NoIO
    /\ returned = None
    /\ environ = Unset
    /\ installed = {}
    /\ downloaded = {}

\* wmmdata.save(outpath, force)
Save(force) ==
    \E r \in {WmmSave(metadata, coeffs, txtfile, binfile, force)} :
        /\ txtfile' = r.txt
        /\ binfile' = r.bin
        /\ outcome' = [op |-> "WmmData.save", err |-> r.err, force |-> force, warns |-> <<>>]
        /\ io' = Streams(SaveOpened(metadata, txtfile, binfile, force), r.err)
        /\ UNCHANGED <<metadata, coeffs, local_metadata, made, cset, lset, path,
                       returned, environ, installed, downloaded>>

\* wmmdata.load(filename)
Load ==
    \E r \in {WmmLoad(metadata, coeffs, txtfile, binfile)} :
        /\ metadata' = r.metadata
        /\ coeffs' = r.coeffs
        /\ outcome' = [op |-> "WmmData.load", err |-> r.err, force |-> FALSE, warns |-> r.warns]
        /\ io' = Streams(LoadOpened(metadata, txtfile, binfile), r.err)
        /\ UNCHANGED <<local_metadata, made, txtfile, binfile, cset, lset, path,
                       returned, environ, installed, downloaded>>

Next ==
    \/ \E force \in BOOLEAN : Save(force)
    \/ Load

Spec == Init /\ [][Next]_vars

\* ------------------------------------------ specification SpecMeta: MetaData

\* The metadata objects saved and loaded back: field by field, values that the
\* rendering or the parser treats differently.
MetaInputs ==
    {[DefaultMetaData EXCEPT !.Name = n, !.Description = d, !.URL = u, !.ReleaseDate = r,
                             !.ID = i, !.N = k, !.FORMAT_VERSION = v] :
        n \in {NA, Igrf12, Igrf04, Wmm},
        d \in {DefaultDescription, <<"Custom model">>},
        u \in {DefaultURL, <<"http://example.org/igrf", "#", "coeffs">>},
        r \in {NA, <<>>},
        i \in {NA, Igrf12Id, SevenId},
        k \in {0, 13},
        v \in {1, 2, 3}}

InitMeta ==
    /\ metadata \in MetaInputs
    /\ coeffs = <<>>
    /\ local_metadata = DefaultMetaData
    /\ made = None
    /\ txtfile = NoFile
    /\ binfile = NoFile
    /\ cset = None
    /\ lset = None
    /\ outcome = Start
    /\ path = NoPath
    /\ io = NoIO
    /\ returned = None
    /\ environ = Unset
    /\ installed = {}
    /\ downloaded = {}

\* metadata.save(filename)
MetaDataSave ==
    /\ txtfile' = MetaSave(metadata).file
    /\ outcome' = [op |-> "MetaData.save", err |-> MetaSave(metadata).err, force |-> FALSE,
                   warns |-> <<>>]
    /\ io' = Streams({"txt"}, MetaSave(metadata).err)
    /\ UNCHANGED <<metadata, coeffs, local_metadata, made, binfile, cset, lset, path,
                   returned, environ, installed, downloaded>>

\* local_metadata = MetaData(); local_metadata.load(filename)
MetaDataLoad ==
    LET r == MetaLoad(DefaultMetaData, txtfile)
    IN  /\ local_metadata' = r.md
        /\ outcome' = [op |-> "MetaData.load", err |-> r.err, force |-> FALSE, warns |-> r.warns]
        /\ io' = Streams(MetaLoadOpened(txtfile), r.err)
        /\ UNCHANGED <<metadata, coeffs, made, txtfile, binfile, cset, lset, path,
                       returned, environ, installed, downloaded>>

NextMeta == MetaDataSave \/ MetaDataLoad

SpecMeta == InitMeta /\ [][NextMeta]_vars

\* -------------------------------------- specification SpecPack: SphCoeffSet

\* The positions of an (N + 1) x (M + 1) pair that may hold a coefficient: order <=
\* degree for C, and order >= 1 besides for S.
SupportC(N, M) == {ij \in Indices(<<N + 1, M + 1>>) : ij[2] <= ij[1]}
SupportS(N, M) == {ij \in SupportC(N, M) : ij[2] >= 1}

\* A value that tells the position it is stored at.
Coef(ij) == 10 * ij[1] + ij[2] + 1

\* The arrays that carry the non-zero coefficients of a pair.
Parts == {"C", "S", "both"}

\* The pair of shape (N + 1) x (M + 1) whose coefficients at the positions of mask
\* are not zero, in the arrays part names, and zero everywhere else.
MaskedSet(N, M, mask, part) ==
    [C |-> [shape |-> <<N + 1, M + 1>>,
            a |-> [ij \in Indices(<<N + 1, M + 1>>) |->
                      IF ij \in mask /\ part # "S" THEN Coef(ij) ELSE 0]],
     S |-> [shape |-> <<N + 1, M + 1>>,
            a |-> [ij \in Indices(<<N + 1, M + 1>>) |->
                      IF ij \in mask /\ ij[2] >= 1 /\ part # "C" THEN -Coef(ij) ELSE 0]]]

\* Every pair (C, S) of shape (N + 1) x (M + 1), 0 <= M <= N <= MaxDeg, that is zero
\* outside its support, by the positions of its non-zero coefficients.
ValidSets ==
    UNION {UNION {{MaskedSet(N, M, mask, part) :
                      mask \in SUBSET SupportC(N, M), part \in Parts} :
                  M \in 0..N} : N \in 0..MaxDeg}

\* Pairs _save_sph_coeff_set refuses, and pairs with entries above the diagonal.
OddSets ==
    {SetUneven,
     [C |-> Mat(<<<<1, 2>>>>), S |-> Mat(<<<<0, 0>>>>)],
     [C |-> [shape |-> <<2>>, a |-> [ij \in Indices(<<2>>) |-> 1]],
      S |-> [shape |-> <<2>>, a |-> [ij \in Indices(<<2>>) |-> 0]]],
     [C |-> Mat(<<<<0, 1>>, <<0, 0>>>>), S |-> Mat(<<<<0, 0>>, <<0, 0>>>>)],
     SetFull, SetPadded}

InitPack ==
    /\ cset \in ValidSets \cup OddSets
    /\ binfile = File(<<>>)
    /\ lset = None
    /\ metadata = DefaultMetaData
    /\ coeffs = <<>>
    /\ local_metadata = DefaultMetaData
    /\ made = None
    /\ txtfile = NoFile
    /\ outcome = Start
    /\ path = NoPath
    /\ io = NoIO
    /\ returned = None
    /\ environ = Unset
    /\ installed = {}
    /\ downloaded = {}

\* WmmData._save_sph_coeff_set(fd, cset) on an empty stream fd (binfile).
SaveSet ==
    /\ outcome.op = "start"
    /\ binfile' = File(binfile.data \o save_sph_coeff_set(cset).cells)
    /\ outcome' = [op |-> "_save_sph_coeff_set", err |-> save_sph_coeff_set(cset).err,
                   force |-> FALSE, warns |-> <<>>]
    /\ io' = NoIO
    /\ UNCHANGED <<metadata, coeffs, local_metadata, made, txtfile, cset, lset, path,
                   returned, environ, installed, downloaded>>

\* lset = WmmData._load_sph_coeff_set(fd) on the stream just written.
LoadSet ==
    /\ outcome.op = "_save_sph_coeff_set"
    /\ lset' = load_sph_coeff_set(binfile.data).set
    /\ outcome' = [op |-> "_load_sph_coeff_set", err |-> load_sph_coeff_set(binfile.data).err,
                   force |-> FALSE, warns |-> <<>>]
    /\ io' = NoIO
    /\ UNCHANGED <<metadata, coeffs, local_metadata, made, txtfile, binfile, cset, path,
                   returned, environ, installed, downloaded>>

NextPack == SaveSet \/ LoadSet

SpecPack == InitPack /\ [][NextPack]_vars

\* --------------------- specification SpecCheck: from_metadata_and_coeffs

\* The keys a mapping may carry: the years of MaxModels epochs, 'rate' and 'tare'.
CheckKeys == {IntStr(1900 + 5 * j) : j \in 0..(MaxModels - 1)} \cup {RateKey, <<"tare">>}

\* Every key sequence of at most MaxModels + 1 keys (keys of a mapping are distinct).
KeySeqs ==
    {ks \in UNION {[1..n -> CheckKeys] : n \in 0..(MaxModels + 1)} :
        \A i, j \in 1..Len(ks) : i # j => ks[i] # ks[j]}

CheckMetas ==
    {[DefaultMetaData EXCEPT !.NumModels = k, !.DeltaEpoch = d] : k \in 0..MaxModels, d \in {0, 5}}

InitCheck ==
    /\ metadata \in CheckMetas
    /\ coeffs \in {Mapping(ks, "full") : ks \in KeySeqs}
    /\ made = None
    /\ local_metadata = DefaultMetaData
    /\ txtfile = NoFile
    /\ binfile = NoFile
    /\ cset = None
    /\ lset = None
    /\ outcome = Start
    /\ path = NoPath
    /\ io = NoIO
    /\ returned = None
    /\ environ = Unset
    /\ installed = {}
    /\ downloaded = {}

\* made = WmmData.from_metadata_and_coeffs(metadata, coeffs)
FromMetadataAndCoeffs ==
    /\ outcome.op = "start"
    /\ made' = from_metadata_and_coeffs(metadata, coeffs).wmmdata
    /\ outcome' = [op |-> "from_metadata_and_coeffs",
                   err |-> from_metadata_and_coeffs(metadata, coeffs).err,
                   force |-> FALSE, warns |-> <<>>]
    /\ io' = NoIO
    /\ UNCHANGED <<metadata, coeffs, local_metadata, txtfile, binfile, cset, lset, path,
                   returned, environ, installed, downloaded>>

NextCheck == FromMetadataAndCoeffs

SpecCheck == InitCheck /\ [][NextCheck]_vars

\* --------------------------------- specification SpecImport: import_igrf_txt

\* Words joined by one blank, and by two.
RECURSIVE Join(_, _)
Join(words, sep) ==
    IF words = <<>> THEN <<>>
    ELSE IF Len(words) = 1 THEN words[1]
    ELSE words[1] \o sep \o Join(Tail(words), sep)

\* The numeral of a float given in tenths, with one decimal: '1900.0', '-11.2'.
FloatStr(t) ==
    (IF t < 0 THEN <<"-">> ELSE <<>>)
        \o NatStr(Abs(t) \div 10) \o <<".">> \o NatStr(Abs(t) % 10)

\* The label of the last column of an IGRF header, and the one the program refuses.
RateLabel == <<"2", "0", "1", "5", "-", "2", "0">>
PlainRate == <<"r", "a", "t", "e">>

\* The header of the years ys, written as floats or as integers, with a last label.
Header(ys, asFloat, last, sep) ==
    Join(<<<<"g/h">>, <<"n">>, <<"m">>>>
            \o [i \in 1..Len(ys) |-> IF asFloat THEN FloatStr(10 * ys[i]) ELSE IntStr(ys[i])]
            \o <<last>>, sep)

\* k years from 1900, every 5 years; the same with the last one 5 years late.
Uniform(k) == [i \in 1..k |-> 1900 + 5 * (i - 1)]
Late(k) == [i \in 1..k |-> IF i = k THEN 1900 + 5 * k ELSE 1900 + 5 * (i - 1)]

\* The headers: 0..MaxYears uniform years; spaced by two blanks; integer labels; the
\* last label 'rate'; years not uniform; descending; repeated; not 'g/h n m';
\* a blank before 'g/h'.
Headers ==
    {Header(Uniform(k), TRUE, RateLabel, <<" ">>) : k \in 0..MaxYears}
    \cup {Header(Uniform(2), TRUE, RateLabel, <<" ", " ">>),
          Header(Uniform(2), FALSE, RateLabel, <<" ">>),
          Header(Uniform(2), FALSE, PlainRate, <<" ">>),
          Header(Late(MaxYears), TRUE, RateLabel, <<" ">>),
          Header(<<1905, 1900>>, TRUE, RateLabel, <<" ">>),
          Header(<<1900, 1900>>, TRUE, RateLabel, <<" ">>),
          <<"g/h", " ", "x", " ", "y", " ">> \o RateLabel,
          <<" ">> \o Header(Uniform(2), TRUE, RateLabel, <<" ">>)}

\* The number of year labels of a header of Headers.
NumLabels(header) == IF Len(Split(header)) < 4 THEN 0 ELSE Len(Split(header)) - 4

\* The value, in tenths, of the record (type, n, m) in column j: n, m and j can be
\* read from it, and the h values are negative.
Value(type, n, m, j) ==
    IF type = "h" THEN -(100 * n + 10 * m + j) ELSE 100 * n + 10 * m + j

\* The text of a record with ncols value columns.
RowLine(type, n, m, nvals) ==
    Join(<<<<type>>, IntStr(n), IntStr(m)>>
            \o [j \in 1..nvals |-> FloatStr(Value(type, n, m, j))], <<" ">>)

\* The records of an IGRF file up to degree MaxDeg, in the order of the file:
\* g n 0, then g n m and h n m for m = 1..n.
Canon ==
    Flatten([n \in 1..MaxDeg |->
        Flatten([k \in 1..(n + 1) |->
            IF k = 1 THEN <<<<"g", n, 0>>>> ELSE <<<<"g", n, k - 1>>, <<"h", n, k - 1>>>>])])

\* The lists of records: the first k of Canon; lists with an order above the
\* degree, with h n 0, with a type that is neither g nor h, with a record twice.
RecordLists ==
    {SubSeq(Canon, 1, k) : k \in 0..Len(Canon)}
    \cup {<<<<"g", 1, 0>>, <<"g", 0, 1>>>>,
          <<<<"g", 1, 0>>, <<"h", 1, 0>>>>,
          <<<<"g", 1, 1>>, <<"x", 2, 2>>>>,
          <<<<"g", 1, 1>>, <<"h", 1, 1>>, <<"g", 1, 1>>>>}

\* An IGRF text: a comment, the header, the records; and texts with a row one value
\* short, with a value that is no number, with a comment line among the rows.
IgrfText(header, recs) ==
    <<<<"#", " ", "IGRF coefficients">>, header>>
        \o [i \in 1..Len(recs) |->
               RowLine(recs[i][1], recs[i][2], recs[i][3], NumLabels(header) + 1)]
IgrfTexts ==
    {IgrfText(h, recs) : h \in Headers, recs \in RecordLists}
    \cup {<<>>,
          <<<<"#", " ", "IGRF coefficients">>>>,
          <<Header(Uniform(2), TRUE, RateLabel, <<" ">>), RowLine("g", 1, 0, 2)>>,
          <<Header(Uniform(2), TRUE, RateLabel, <<" ">>),
            <<"g", " ", "1", " ", "0", " ", "1", ".", "0", " ", "?", " ", "2", ".", "0">>>>,
          <<Header(Uniform(2), TRUE, RateLabel, <<" ">>), RowLine("g", 1, 0, 3),
            <<"#", " ", "more">>, <<>>, RowLine("g", 1, 1, 3)>>,
          <<Header(Uniform(2), FALSE, PlainRate, <<" ">>),
            <<"g", " ", "1", " ", "0", " ", "-", "3", "1", "5", "4", "3", " ",
              "-", "3", "1", "4", "6", "4", " ", "1", "0", ".", "3">>>>}

\* The arguments: local paths, file: and https: URLs; names the pattern refuses.
LocalPath == [scheme |-> "", name |-> <<"igrf", "1", "2", "coeffs", ".txt">>]
Paths ==
    {[scheme |-> sc, name |-> nm] :
        sc \in {"", "file", "https"},
        nm \in {<<"igrf", "1", "2", "coeffs", ".txt">>,
                <<"igrf", "1", "coeffs", ".txt">>,
                <<"igrf", "1", "2", "coeffs", ".txt", ".bak">>,
                <<"wmm", "2", "0", "coeffs", ".txt">>}}

\* The days an import may run on.
Dates == {<<"2021-01-01">>, <<"2021-12-31">>}

InitImport ==
    /\ \/ path = LocalPath /\ txtfile \in {File(t) : t \in IgrfTexts}
       \/ /\ path \in Paths
          /\ txtfile \in {NoFile, File(<<>>),
                           File(IgrfText(Header(Uniform(2), TRUE, RateLabel, <<" ">>),
                                         SubSeq(Canon, 1, 3)))}
    /\ metadata = DefaultMetaData
    /\ coeffs = <<>>
    /\ local_metadata = DefaultMetaData
    /\ made = None
    /\ binfile = NoFile
    /\ cset = None
    /\ lset = None
    /\ outcome = Start
    /\ io = NoIO
    /\ returned = None
    /\ environ = Unset
    /\ installed = {}
    /\ downloaded = {}

\* made = import_igrf_txt(path), the resource at path being txtfile
ImportIgrfTxt ==
    \E today \in Dates :
        \E r \in {import_igrf_txt(path, txtfile, today)} :
            /\ made' = r.wmmdata
            /\ outcome' = [op |-> "import_igrf_txt", err |-> r.err, force |-> FALSE,
                           warns |-> <<>>]
            /\ io' = [opened |-> r.opened, open |-> StillOpen(r.opened, r.err),
                      lines |-> r.lines]
            /\ UNCHANGED <<metadata, coeffs, local_metadata, txtfile, binfile, cset, lset, path,
                           returned, environ, installed, downloaded>>

NextImport == ImportIgrfTxt

SpecImport == InitImport /\ [][NextImport]_vars

\* ------------------------- specification SpecStreams: the five operations on files

\* IGRF texts, one for each way import_igrf_txt ends: empty, without header, good,
\* a header with one year, years not evenly spaced, a row that is too short.
StreamTexts ==
    {<<>>,
     <<<<"#", " ", "IGRF coefficients">>>>,
     IgrfText(Header(Uniform(2), TRUE, RateLabel, <<" ">>), SubSeq(Canon, 1, 3)),
     IgrfText(Header(Uniform(1), TRUE, RateLabel, <<" ">>), SubSeq(Canon, 1, 1)),
     IgrfText(Header(Late(MaxYears), TRUE, RateLabel, <<" ">>), SubSeq(Canon, 1, 1)),
     IgrfText(Header(Uniform(2), TRUE, RateLabel, <<" ">>), <<>>)
        \o <<<<"g", " ", "1", " ", "0", " ", "1", ".", "0">>>>}

\* Either a model of one epoch next to the files found on disk, or an IGRF text
\* at a local path or behind a URL.
InitStreams ==
    /\ \/ /\ metadata \in {[DefaultMetaData EXCEPT !.Name = Igrf12, !.ID = i, !.NumModels = 1] :
                              i \in {NA, Igrf12Id}}
          /\ coeffs = Mapping(ModelKeys(1), "full")
          /\ \E f \in ExternalFiles : txtfile = f[1] /\ binfile = f[2]
          /\ path = NoPath
       \/ /\ metadata = DefaultMetaData
          /\ coeffs = <<>>
          /\ path \in {LocalPath, [scheme |-> "https", name |-> LocalPath.name]}
          /\ txtfile \in {File(t) : t \in StreamTexts}
          /\ binfile = NoFile
    /\ local_metadata = DefaultMetaData
    /\ made = None
    /\ cset = None
    /\ lset = None
    /\ outcome = Start
    /\ io = NoIO
    /\ returned = None
    /\ environ = Unset
    /\ installed = {}
    /\ downloaded = {}

NextStreams ==
    \/ \E force \in BOOLEAN : Save(force)
    \/ Load
    \/ MetaDataSave
    \/ MetaDataLoad
    \/ ImportIgrfTxt

SpecStreams == InitStreams /\ [][NextStreams]_vars

\* --------------------- specification SpecHand: MetaData.load of files written by hand

\* The sequences of at most n elements of S.
RECURSIVE SeqsUpTo(_, _)
SeqsUpTo(S, n) ==
    IF n = 0 THEN {<<>>}
    ELSE With(SeqsUpTo(S, n - 1), LAMBDA P : P \cup {<<a>> \o q : a \in S, q \in P})

\* First lines: the two markers, a marker of another version, a marker followed or
\* preceded by a blank, a marker with one more digit, in lower case, a blank line,
\* a comment.
FirstLines ==
    {<<"WMMF-", "1">>, <<"WMMF-", "2">>, <<"WMMF-", "3">>, <<"WMMF-", "1", " ">>,
     <<" ", "WMMF-", "1">>, <<"WMMF-", "1", "0">>, <<"wmmf-", "1">>, <<>>,
     <<"#", " ", "metadata">>}

\* Lines after the first: fields, a FORMAT_VERSION field, a blank line, a comment,
\* names MetaData does not have and names of its methods, with and without a value.
BodyLines ==
    {FieldLine("Name", 1, Igrf12),
     FieldLine("NumModels", 1, <<"2">>),
     FieldLine("FORMAT_VERSION", 1, <<"7">>),
     FieldLine("FORMAT_VERSION", 1, <<"x">>),
     <<>>,
     <<"#", " ", "note">>,
     <<"WMMF-", "2">>,
     FieldLine("Comment", 1, <<"none">>),
     <<"Comment">>,
     FieldLine("load", 1, <<"x">>),
     <<"get_id">>}

\* The files: none, an empty one, a first line followed by at most MaxLines lines.
HandFiles ==
    {NoFile, File(<<>>)}
    \cup {File(<<f>> \o b) : f \in FirstLines, b \in SeqsUpTo(BodyLines, MaxLines)}

InitHand ==
    /\ txtfile \in HandFiles
    /\ metadata = DefaultMetaData
    /\ coeffs = <<>>
    /\ local_metadata = DefaultMetaData
    /\ made = None
    /\ binfile = NoFile
    /\ cset = None
    /\ lset = None
    /\ outcome = Start
    /\ path = NoPath
    /\ io = NoIO
    /\ returned = None
    /\ environ = Unset
    /\ installed = {}
    /\ downloaded = {}

NextHand == MetaDataLoad

SpecHand == InitHand /\ [][NextHand]_vars

\* ------------- specification SpecQuery: get_years, get_id and str of a MetaData

\* Names: absent, empty, IGRF names of generation 1, 2, 3, 11 and 0, a name that is
\* no IGRF name, IGRF names too short and too long, an IGRF name in upper case.
QueryNames ==
    {NA, <<>>, Igrf12, Igrf04,
     <<"i", "g", "r", "f", "0", "2">>, <<"i", "g", "r", "f", "0", "3">>,
     <<"i", "g", "r", "f", "0", "1">>,
     Wmm, <<"i", "g", "r", "f", "1">>, <<"i", "g", "r", "f", "1", "2", "0">>,
     <<"I", "G", "R", "F", "1", "2">>}

\* The metadata objects queried: as built by the caller.
QueryMetas ==
    {[DefaultMetaData EXCEPT !.Name = n, !.ID = i, !.Description = d, !.NumModels = k,
                             !.DeltaEpoch = e] :
        n \in QueryNames,
        i \in {NA, <<>>, Igrf12Id, SevenId},
        d \in {DefaultDescription, <<"Custom model">>},
        k \in 0..MaxModels,
        e \in {-5, 0, 1, 5}}

\* Metadata files with an ID line, written by hand or by save.
IdFiles ==
    {File(<<<<"WMMF-", "1">>, FieldLine("Name", 12, n), <<>>, FieldLine("ID", 14, i)>>) :
        n \in {Igrf12, Wmm}, i \in {NA, Igrf12Id, Igrf11Id}}
    \cup {MetaSave([DefaultMetaData EXCEPT !.Name = n, !.ID = i]).file :
             n \in {Igrf12, Igrf04}, i \in {NA, SevenId}}

\* metadata = MetaData(...), or metadata = MetaData() followed by a load of a file
\* that has an ID line.
InitQuery ==
    /\ \/ metadata \in QueryMetas /\ txtfile = NoFile
       \/ /\ txtfile \in IdFiles
          /\ MetaLoad(DefaultMetaData, txtfile).err = NoError
          /\ metadata = MetaLoad(DefaultMetaData, txtfile).md
    /\ coeffs = <<>>
    /\ local_metadata = DefaultMetaData
    /\ made = None
    /\ binfile = NoFile
    /\ cset = None
    /\ lset = None
    /\ outcome = Start
    /\ path = NoPath
    /\ io = NoIO
    /\ returned = None
    /\ environ = Unset
    /\ installed = {}
    /\ downloaded = {}

\* returned = metadata.get_years()
GetYears ==
    /\ returned' = IF get_years(metadata).ok THEN get_years(metadata).list ELSE None
    /\ outcome' = [op |-> "get_years",
                   err |-> IF get_years(metadata).ok THEN NoError ELSE "ValueError",
                   force |-> FALSE, warns |-> <<>>]
    /\ io' = NoIO
    /\ UNCHANGED <<metadata, coeffs, local_metadata, made, txtfile, binfile, cset, lset, path,
                   environ, installed, downloaded>>

\* returned = metadata.get_id()
GetId ==
    /\ returned' = get_id(metadata)
    /\ outcome' = [op |-> "get_id", err |-> NoError, force |-> FALSE, warns |-> <<>>]
    /\ io' = NoIO
    /\ UNCHANGED <<metadata, coeffs, local_metadata, made, txtfile, binfile, cset, lset, path,
                   environ, installed, downloaded>>

\* returned = str(metadata)
MetaDataStr ==
    /\ returned' = IF MetaStr(metadata).ok THEN MetaStr(metadata).text ELSE None
    /\ outcome' = [op |-> "__str__",
                   err |-> IF MetaStr(metadata).ok THEN NoError ELSE "ValueError",
                   force |-> FALSE, warns |-> <<>>]
    /\ io' = NoIO
    /\ UNCHANGED <<metadata, coeffs, local_metadata, made, txtfile, binfile, cset, lset, path,
                   environ, installed, downloaded>>

NextQuery == GetYears \/ GetId \/ MetaDataStr

SpecQuery == InitQuery /\ [][NextQuery]_vars

\* ------------------------------------------------- data.py: install, and cli.test

\* The enumerations of data.py.  A model is [type |-> the value of its model type,
\* value |-> its own value]; an installable argument is a model, a model type
\* [modeltype |-> value] or a group [group |-> value].
EModelGroup == {"all", "minimal", "recommended"}
EModelType == <<"geoids", "gravity", "magnetic">>
EGeoidModel ==
    <<"egm84-30", "egm84-15", "egm96-15", "egm96-5", "egm2008-5", "egm2008-2_5", "egm2008-1">>
EGravityModel == <<"egm84", "egm96", "egm2008", "grs80", "wgs84">>
EMagneticModel ==
    <<"wmm2010", "wmm2015", "wmm2015v2", "wmm2020", "wmm2025", "wmmhr2025", "igrf11",
      "igrf12", "igrf13", "igrf14", "emm2010", "emm2015", "emm2017">>
EArchiveType == {".zip", ".tar.bz2"}
BZ2 == ".tar.bz2"

Model(type, value) == [type |-> type, value |-> value]

\* _MODELTYPE_MAP[modeltype], as the set of the models of the enumeration.
ModelsOfType(type) ==
    LET enum == IF type = "geoids" THEN EGeoidModel
                ELSE IF type = "gravity" THEN EGravityModel
                ELSE EMagneticModel
    IN  {Model(type, enum[i]) : i \in 1..Len(enum)}

\* The default models GeographicLib is configured with (default_geoid_name(),
\* default_gravity_name(), default_magnetic_name()).
DefaultModels ==
    {Model("geoids", "egm96-5"), Model("gravity", "egm96"), Model("magnetic", "wmm2025")}

\* A URL is a sequence of symbols: scheme, "://", host, then the symbols of the
\* path ("/" and the names between), then "?" and the query when there is one.
\* No base URL is the empty string.
NoBaseUrl == <<>>
BASE_URL ==
    <<"https", "://", "downloads.sourceforge.net", "/", "project", "/", "geographiclib", "/">>
URL_QUERY == "use_mirror=autoselect"

\* url.path.rstrip('/')
RECURSIVE RStripSlash(_)
RStripSlash(s) ==
    IF Len(s) > 0 /\ s[Len(s)] = "/" THEN RStripSlash(SubSeq(s, 1, Len(s) - 1)) ELSE s

\* urlsplit(base_url) of a URL with scheme and host.
UrlSplit(url) ==
    [scheme |-> url[1], netloc |-> url[3], path |-> SubSeq(url, 4, Len(url)), query |-> <<>>]

\* SplitResult.geturl()
GetUrl(u) ==
    <<u.scheme, "://", u.netloc>> \o u.path
        \o (IF u.query = <<>> THEN <<>> ELSE <<"?">> \o u.query)

\* get_model_url(model, base_url, archive_type)
get_model_url(model, base_url, archive_type) ==
    LET base == IF base_url = <<>> THEN BASE_URL ELSE base_url
        query == IF base_url = <<>> THEN <<URL_QUERY>> ELSE <<>>
        url == UrlSplit(base)
        urlpath == RStripSlash(url.path)
                      \o <<"/", model.type, "-distrib", "/", model.value, archive_type>>
    IN  GetUrl([url EXCEPT !.path = urlpath, !.query = query])

\* dict.update: the entries of new replace or extend those of old.
Update(old, new) ==
    [m \in DOMAIN old \cup DOMAIN new |-> IF m \in DOMAIN new THEN new[m] ELSE old[m]]

\* The map of the models of a set to their URLs.
UrlsOf(models, base_url, archive_type) ==
    [m \in models |-> get_model_url(m, base_url, archive_type)]

RECURSIVE get_url_map(_, _, _)
RECURSIVE get_url_map_from_group(_, _, _)

\* _get_url_map_from_group(model, base_url, archive_type); the map of MINIMAL inside
\* RECOMMENDED is asked for without base_url and archive_type.
get_url_map_from_group(group, base_url, archive_type) ==
    IF group = "all"
    THEN Update(Update(get_url_map([modeltype |-> "geoids"], base_url, archive_type),
                       get_url_map([modeltype |-> "gravity"], base_url, archive_type)),
                get_url_map([modeltype |-> "magnetic"], base_url, archive_type))
    ELSE IF group = "minimal"
    THEN UrlsOf(DefaultModels, base_url, archive_type)
    ELSE Update(get_url_map([group |-> "minimal"], NoBaseUrl, BZ2),
                UrlsOf({Model("geoids", "egm96-5"), Model("gravity", "egm96"),
                        Model("magnetic", "igrf12"), Model("magnetic", "wmm2015")},
                       base_url, archive_type))

\* _get_url_map(model, base_url, archive_type); a group is handed to
\* _get_url_map_from_group without base_url and archive_type.
get_url_map(model, base_url, archive_type) ==
    IF "group" \in DOMAIN model
    THEN get_url_map_from_group(model.group, NoBaseUrl, BZ2)
    ELSE IF "modeltype" \in DOMAIN model
    THEN UrlsOf(ModelsOfType(model.modeltype), base_url, archive_type)
    ELSE UrlsOf({model}, base_url, archive_type)

\* list(target.parent.glob(f'{target.name}*')) is not empty: something in the
\* directory of the model type starts with the name of the model.  Among the
\* names of one type only 'wmm2015' is the beginning of another, 'wmm2015v2'.
Present(model, found) ==
    \/ model \in found
    \/ model = Model("magnetic", "wmm2015") /\ Model("magnetic", "wmm2015v2") \in found

\* install(model, datadir, base_url, archive_type): the models downloaded and
\* unpacked, those already present being skipped.  isdir tells whether the default
\* data path, used when datadir is not given, is a directory.
install(model, datadir, base_url, archive_type, found, isdir) ==
    IF datadir = None /\ ~isdir
    THEN [err |-> "NotADirectoryError", downloaded |-> {}, installed |-> found]
    ELSE With(get_url_map(model, base_url, archive_type), LAMBDA urls :
        With({m \in DOMAIN urls : ~Present(m, found)}, LAMBDA new :
            [err |-> NoError, downloaded |-> {urls[m] : m \in new},
             installed |-> found \cup new]))

\* The value of GEOGRAPHICLIB_DATA after os.environ[...] = str(datadir).
EnvOf(datadir) == [value |-> datadir.path]

\* The return value of tests.test: os.EX_OK when the suite was successful, else 1.
SuiteResult(suite) == IF suite = "pass" THEN 0 ELSE 1

\* cli.test(datadir) with GEOGRAPHICLIB_DATA at env and a suite that passes, fails
\* or raises: the value returned or the error raised, and the variable after the
\* call.  The finally clause deletes the variable when it was not set before the
\* call; del of a variable that is not set is a KeyError, which replaces the
\* return value or the exception of the try block.
cli_test(datadir, env, suite) ==
    LET old == env
        during == IF datadir # None THEN EnvOf(datadir) ELSE env
        tried == IF suite = "raise" THEN [err |-> "SuiteError", value |-> None]
                 ELSE [err |-> NoError, value |-> [int |-> SuiteResult(suite)]]
    IN  IF old = Unset
        THEN IF during = Unset
             THEN [err |-> "KeyError", value |-> None, env |-> Unset]
             ELSE [err |-> tried.err, value |-> tried.value, env |-> Unset]
        ELSE [err |-> tried.err, value |-> tried.value, env |-> old]

\* The arguments the commands are run with.
Installables ==
    {[group |-> g] : g \in EModelGroup}
        \cup {[modeltype |-> "magnetic"], Model("magnetic", "wmm2015")}
BaseUrls ==
    {NoBaseUrl,
     <<"https", "://", "example.org", "/", "data", "/">>,
     <<"http", "://", "mirror.net">>}
DataDirs == {None, [path |-> "/opt/data"]}
Environs == {Unset, [value |-> "/env/data"]}
Suites == {"pass", "fail", "raise"}

InitTools ==
    /\ environ \in Environs
    /\ installed \in {{}, {Model("magnetic", "wmm2015v2")}}
    /\ downloaded = {}
    /\ returned = None
    /\ outcome = Start
    /\ metadata = DefaultMetaData
    /\ coeffs = <<>>
    /\ local_metadata = DefaultMetaData
    /\ made = None
    /\ txtfile = NoFile
    /\ binfile = NoFile
    /\ cset = None
    /\ lset = None
    /\ path = NoPath
    /\ io = NoIO

\* install(model, datadir, base_url, archive_type); downloaded holds the URLs
\* this call downloaded, and the outcome the arguments of the call.
Install(model, datadir, base_url, archive_type, isdir) ==
    \E r \in {install(model, datadir, base_url, archive_type, installed, isdir)} :
        /\ installed' = r.installed
        /\ downloaded' = r.downloaded
        /\ returned' = None
        /\ outcome' = [op |-> "install", err |-> r.err, force |-> FALSE, warns |-> <<>>,
                       args |-> [model |-> model, base_url |-> base_url,
                                 archive_type |-> archive_type]]
        /\ UNCHANGED <<metadata, coeffs, local_metadata, made, txtfile, binfile,
                       cset, lset, path, io, environ>>

\* cli.test(datadir); the outcome holds the arguments of the call and the value
\* GEOGRAPHICLIB_DATA had before it.
CliTest(datadir, suite) ==
    \E r \in {cli_test(datadir, environ, suite)} :
        /\ environ' = r.env
        /\ returned' = r.value
        /\ outcome' = [op |-> "cli.test", err |-> r.err, force |-> FALSE, warns |-> <<>>,
                       args |-> [datadir |-> datadir, suite |-> suite, environ |-> environ]]
        /\ UNCHANGED <<metadata, coeffs, local_metadata, made, txtfile, binfile,
                       cset, lset, path, io, installed, downloaded>>

NextTools ==
    \/ \E model \in Installables, datadir \in DataDirs, base_url \in BaseUrls,
          archive_type \in EArchiveType, isdir \in BOOLEAN :
            Install(model, datadir, base_url, archive_type, isdir)
    \/ \E datadir \in DataDirs, suite \in Suites : CliTest(datadir, suite)

SpecTools == InitTools /\ [][NextTools]_vars

\* ------------------------------------------------------------ properties

\* The positions (degree, order) of a pair at which C or S is not zero.
NonZero(cs) == {ij \in DOMAIN cs.C.a : cs.C.a[ij] # 0 \/ cs.S.a[ij] # 0}
\* The highest degree and the highest order that have a non-zero coefficient.
HighestDegree(cs) == Max({ij[1] : ij \in NonZero(cs)})
HighestOrder(cs) == Max({ij[2] : ij \in NonZero(cs)})

\* The lengths of the two arrays of a block of size (n, m).
CountC(n, m) == ((m + 1) * (2 * n - m + 2)) \div 2
CountS(n, m) == (m * (2 * n - m + 1)) \div 2

\* The place of C[d, o] among the C values of a block, and of S[d, o] among its S
\* values, counted from 1: grouped by order, and by degree inside an order.
PosC(n, d, o) == o * (n + 1) - (o * (o - 1)) \div 2 + (d - o) + 1
PosS(n, d, o) == (o - 1) * (n + 1) - (o * (o - 1)) \div 2 + (d - o) + 1

\* The number of cells of a binary file before its i-th block, every block as long as
\* its own (n, m) says.
RECURSIVE BlockStart(_, _)
BlockStart(data, i) ==
    IF i = 1 THEN 8
    ELSE With(BlockStart(data, i - 1), LAMBDA at :
             at + 2 + CountC(data[at + 1].v, data[at + 2].v)
                    + CountS(data[at + 1].v, data[at + 2].v))

\* The block after the first `at` cells of data holds the coefficients of cs.
PackedAt(data, at, cs) ==
    LET n == data[at + 1].v
        m == data[at + 2].v
    IN  /\ data[at + 1].k = "i32" /\ data[at + 2].k = "i32"
        /\ \A o \in 0..m : \A d \in o..n :
              data[at + 2 + PosC(n, d, o)] = F64(cs.C.a[<<d, o>>])
        /\ \A o \in 1..m : \A d \in o..n :
              data[at + 2 + CountC(n, m) + PosS(n, d, o)] = F64(cs.S.a[<<d, o>>])

\* cs is two zero matrices of the size of the block after the first `at` cells of
\* data, with the values of the block at their (degree, order) positions.
ScatteredFrom(data, at, cs) ==
    LET n == data[at + 1].v
        m == data[at + 2].v
    IN  /\ cs.C.shape = <<n + 1, m + 1>> /\ cs.S.shape = <<n + 1, m + 1>>
        /\ \A d \in 0..n : \A o \in 0..m :
              /\ cs.C.a[<<d, o>>] = IF o <= d THEN data[at + 2 + PosC(n, d, o)].v ELSE 0
              /\ cs.S.a[<<d, o>>] = IF 1 <= o /\ o <= d
                                    THEN data[at + 2 + CountC(n, m) + PosS(n, d, o)].v
                                    ELSE 0

\* C1 (SpecPack): a pair of ValidSets whose highest degree and highest order both
\* carry a non-zero coefficient, written by _save_sph_coeff_set and read back by
\* _load_sph_coeff_set, comes back equal in shape and in every entry.
C1_PackUnpackRoundTrip ==
    (/\ outcome.op = "_load_sph_coeff_set"
     /\ cset \in ValidSets
     /\ NonZero(cset) # {}
     /\ HighestDegree(cset) = cset.C.shape[1] - 1
     /\ HighestOrder(cset) = cset.C.shape[2] - 1)
    => (outcome.err = NoError /\ lset = cset)

\* C2 (SpecPack): the (n, m) written by _save_sph_coeff_set for a pair of ValidSets
\* is the highest degree and the highest order that have a non-zero coefficient.
C2_EffectiveSize ==
    (outcome.op = "_save_sph_coeff_set" /\ outcome.err = NoError /\ cset \in ValidSets)
    => (/\ binfile.data[1] = I32(HighestDegree(cset))
        /\ binfile.data[2] = I32(HighestOrder(cset)))

\* C3 (SpecCheck): with DeltaEpoch not zero, from_metadata_and_coeffs returns the
\* model when the keys are the years of the metadata followed by 'rate', and fails
\* with RuntimeError, returning nothing, for every other mapping.
C3_InconsistentMappingFails ==
    (outcome.op = "from_metadata_and_coeffs" /\ metadata.DeltaEpoch # 0)
    => IF Keys(coeffs) = YearKeys(get_years(metadata).list) \o <<RateKey>>
       THEN outcome.err = NoError /\ made = [metadata |-> metadata, coeffs |-> coeffs]
       ELSE outcome.err = "RuntimeError" /\ made = None

\* C4 (Spec): a WmmData.save of a model whose get_id() is not 8 characters long
\* raises and leaves the metadata file and the binary file as they were.
C4_InvalidIdWritesNothing ==
    [][(outcome'.op = "WmmData.save" /\ Len(get_id(metadata)) # 8)
       => (outcome'.err # NoError /\ txtfile' = txtfile /\ binfile' = binfile)]_vars

\* C5 (Spec): WmmData.save with force = False raises RuntimeError and leaves both
\* files as they were when either of them exists; with force = True it never raises
\* for an existing file, writes the metadata file and, when it raises nothing, the
\* binary file too.
C5_ExistenceChecks ==
    [][outcome'.op = "WmmData.save"
       => /\ (~outcome'.force /\ (txtfile.exists \/ binfile.exists))
                => (/\ outcome'.err = "RuntimeError"
                    /\ txtfile' = txtfile
                    /\ binfile' = binfile)
          /\ outcome'.force
                => (/\ outcome'.err # "RuntimeError"
                    /\ txtfile'.exists
                    /\ outcome'.err = NoError
                          => (/\ txtfile'.data # <<>>
                              /\ binfile'.exists
                              /\ Len(binfile'.data) >= 8))]_vars

\* A save refused because the binary file alone was there.
C5_Witness ==
    /\ outcome.op = "WmmData.save"
    /\ ~outcome.force
    /\ outcome.err = "RuntimeError"
    /\ ~txtfile.exists
    /\ binfile.exists

\* C6 (SpecMeta): a fresh MetaData loaded from the file metadata.save wrote is equal
\* to the metadata saved.
C6_MetaDataRoundTrip ==
    (outcome.op = "MetaData.load" /\ outcome.err = NoError)
    => MetaEq(local_metadata, metadata)

\* C7 (SpecMeta): the rendering of a fresh MetaData loaded from the file
\* metadata.save wrote is that file, line by line.
C7_RenderingIdempotent ==
    (outcome.op = "MetaData.load" /\ outcome.err = NoError)
    => (MetaStr(local_metadata).ok /\ MetaStr(local_metadata).text = txtfile.data)

\* C8 (Spec): a WmmData.load of a binary file whose first 8 bytes are not the
\* get_id() of the metadata loaded with it raises, and the coefficients of the object
\* stay what they were.
C8_IdMismatchFails ==
    [][(/\ outcome'.op = "WmmData.load"
        /\ binfile.exists
        /\ ReadId(binfile.data) # get_id(metadata'))
       => (outcome'.err # NoError /\ coeffs' = coeffs)]_vars

\* A load refused for the ID of its binary file.
C8_Witness ==
    /\ outcome.op = "WmmData.load"
    /\ outcome.err = "RuntimeError"
    /\ binfile.exists
    /\ Len(binfile.data) > 8
    /\ ReadId(binfile.data) # get_id(metadata)

\* C9 (Spec): for metadata with NumModels >= 0 and DeltaEpoch >= 0, after a
\* WmmData.load that raised nothing the mapping has NumModels + 1
\* entries, 'rate' is the last key, the keys before it read as integers are the
\* years Epoch, Epoch + DeltaEpoch, ... in ascending order, and the i-th entry has
\* the size the i-th block of the file carries.
C9_LoadedKeys ==
    (outcome.op = "WmmData.load" /\ outcome.err = NoError)
    => /\ Len(coeffs) = metadata.NumModels + 1
       /\ coeffs[Len(coeffs)].key = RateKey
       /\ \A i \in 1..(Len(coeffs) - 1) :
             /\ StrInt(coeffs[i].key).ok
             /\ StrInt(coeffs[i].key).val = metadata.Epoch + (i - 1) * metadata.DeltaEpoch
             /\ i > 1 => StrInt(coeffs[i - 1].key).val < StrInt(coeffs[i].key).val
       /\ \A i \in 1..Len(coeffs) :
             LET at == BlockStart(binfile.data, i)
             IN  coeffs[i].set.C.shape
                    = <<binfile.data[at + 1].v + 1, binfile.data[at + 2].v + 1>>

\* A load of two epochs and the rates, from blocks of different sizes.
C9_Witness ==
    /\ outcome.op = "WmmData.load"
    /\ outcome.err = NoError
    /\ metadata.NumModels = 2
    /\ Len(coeffs) = 3
    /\ coeffs[1].set.C.shape # coeffs[2].set.C.shape

\* C10 (Spec): after a WmmData.save that raised nothing the binary file is the 8
\* bytes of the ID and one block per entry of the mapping, each block (n, m), the C
\* values by order 0..m and by degree o..n inside an order, then the S values by
\* order 1..m and by degree o..n; after a WmmData.load that raised nothing every
\* entry is a pair of zero matrices with the values of its block at these positions.
C10_BlockLayout ==
    /\ (outcome.op = "WmmData.save" /\ outcome.err = NoError)
       => /\ SubSeq(binfile.data, 1, 8) = [i \in 1..8 |-> Byte(get_id(metadata)[i])]
          /\ \A i \in 1..Len(coeffs) :
                PackedAt(binfile.data, BlockStart(binfile.data, i), coeffs[i].set)
          /\ Len(binfile.data) = BlockStart(binfile.data, Len(coeffs) + 1)
    /\ (outcome.op = "WmmData.load" /\ outcome.err = NoError)
       => \A i \in 1..Len(coeffs) :
             ScatteredFrom(binfile.data, BlockStart(binfile.data, i), coeffs[i].set)

\* A model with a set of degree 2 and order 2 read back from the file written for it.
C10_Witness ==
    /\ outcome.op = "WmmData.load"
    /\ outcome.err = NoError
    /\ Len(coeffs) = 2
    /\ coeffs[1].set.C.shape = <<3, 3>>
    /\ Len(binfile.data) = 8 + (2 + CountC(2, 2) + CountS(2, 2)) + (2 + CountC(0, 0))

\* An import from a local path whose name the pattern accepts.
LocalImport ==
    /\ outcome.op = "import_igrf_txt"
    /\ IsLocal(path.scheme)
    /\ \E a, b \in {Digits[i] : i \in 1..10} : path.name = <<"igrf", a, b, "coeffs", ".txt">>

\* C and S have one shape, are zero above the diagonal, and S is zero at order 0.
Triangular(cs) ==
    /\ cs.C.shape = cs.S.shape
    /\ \A ij \in DOMAIN cs.C.a :
          /\ ij[2] > ij[1] => (cs.C.a[ij] = 0 /\ cs.S.a[ij] = 0)
          /\ ij[2] = 0 => cs.S.a[ij] = 0

\* C11 (SpecImport): every coefficient set of a model import_igrf_txt returned has C
\* and S of one shape, zero wherever the order is above the degree, and S zero at
\* order 0.
C11_ImportedSetsTriangular ==
    (outcome.op = "import_igrf_txt" /\ outcome.err = NoError)
    => \A i \in 1..Len(made.coeffs) : Triangular(made.coeffs[i].set)

\* C12 (SpecImport): the import of an IGRF text with k >= 1 years, every 5 years
\* from 1900, and at least one record returns a model with NumModels = k and the
\* keys '1900', '1905', ... (k of them) and 'rate'.
C12_ImportEpochs ==
    \A k \in 1..MaxYears : \A c \in 1..Len(Canon) :
        (/\ LocalImport
         /\ txtfile = File(IgrfText(Header(Uniform(k), TRUE, RateLabel, <<" ">>),
                                    SubSeq(Canon, 1, c))))
        => (/\ outcome.err = NoError
            /\ made.metadata.NumModels = k
            /\ Keys(made.coeffs)
                  = [j \in 1..(k + 1) |-> IF j <= k THEN IntStr(1900 + 5 * (j - 1)) ELSE RateKey])

\* The text of the scenario: 'g/h n m 1900 1905 rate' and 'g 1 0 -31543 -31464 10.3'.
ScenarioText ==
    <<<<"g/h", " ", "n", " ", "m", " ", "1", "9", "0", "0", " ", "1", "9", "0", "5", " ",
        "r", "a", "t", "e">>,
      <<"g", " ", "1", " ", "0", " ", "-", "3", "1", "5", "4", "3", " ",
        "-", "3", "1", "4", "6", "4", " ", "1", "0", ".", "3">>>>

\* C13 (SpecImport): the import of the header 'g/h n m 1900 1905 rate' with the row
\* 'g 1 0 -31543 -31464 10.3' succeeds, with Epoch 1900, DeltaEpoch 5, NumModels 2,
\* MaxTime 1910, C[1,0] = -31543, -31464 and 10.3 under '1900', '1905' and 'rate',
\* and S zero.
C13_Scenario ==
    (LocalImport /\ txtfile = File(ScenarioText))
    => (/\ outcome.err = NoError
        /\ made.metadata.Epoch = 1900
        /\ made.metadata.DeltaEpoch = 5
        /\ made.metadata.NumModels = 2
        /\ made.metadata.MaxTime = 1910
        /\ Keys(made.coeffs) = <<IntStr(1900), IntStr(1905), RateKey>>
        /\ made.coeffs[1].set.C.a[<<1, 0>>] = -315430
        /\ made.coeffs[2].set.C.a[<<1, 0>>] = -314640
        /\ made.coeffs[3].set.C.a[<<1, 0>>] = 103
        /\ \A j \in 1..3 : \A ij \in DOMAIN made.coeffs[j].set.S.a :
              made.coeffs[j].set.S.a[ij] = 0)

\* The year labels of the header of a text: the words after 'g/h n m', without the
\* last one, read as whole numbers.
HeaderYears(lines) ==
    LET words == Split(lines[HeaderIndex(lines, 1)])
    IN  [i \in 1..(Len(words) - 4) |-> StrFloat(words[i + 3]).val \div 10]

\* C14 (SpecImport): the metadata of a model import_igrf_txt returned has NumModels
\* the number of year labels of the header, Epoch and MinTime the first year,
\* DeltaEpoch the second year minus the first, MaxTime the last year plus
\* DeltaEpoch, and get_years() is the list of the year labels.
C14_HeaderMetadata ==
    (outcome.op = "import_igrf_txt" /\ outcome.err = NoError)
    => LET ys == HeaderYears(txtfile.data)
           md == made.metadata
       IN  /\ md.NumModels = Len(ys)
           /\ md.Epoch = ys[1]
           /\ md.MinTime = ys[1]
           /\ md.DeltaEpoch = ys[2] - ys[1]
           /\ md.MaxTime = ys[Len(ys)] + (ys[2] - ys[1])
           /\ get_years(md).ok
           /\ get_years(md).list = ys

\* An import of three years and the rates.
C14_Witness ==
    /\ outcome.op = "import_igrf_txt"
    /\ outcome.err = NoError
    /\ made.metadata.NumModels = 3
    /\ made.metadata.MaxTime = 1915

\* C15 (SpecImport): the import of an IGRF text with at least one record is refused
\* with RuntimeError when the years of its header are not evenly spaced and
\* succeeds when they are, for any number k >= 1 of years.
C15_UniformYears ==
    /\ \A k \in 1..MaxYears : \A c \in 1..Len(Canon) :
          (/\ LocalImport
           /\ txtfile = File(IgrfText(Header(Uniform(k), TRUE, RateLabel, <<" ">>),
                                      SubSeq(Canon, 1, c))))
          => outcome.err = NoError
    /\ \A c \in 1..Len(Canon) :
          (/\ LocalImport
           /\ txtfile = File(IgrfText(Header(Late(MaxYears), TRUE, RateLabel, <<" ">>),
                                      SubSeq(Canon, 1, c))))
          => outcome.err = "RuntimeError"

\* The records of a text: the words of the lines after the header that are not
\* blank once their comment is taken off.
Records(lines) ==
    {Split(BeforeHash(lines[i])) : i \in (HeaderIndex(lines, 1) + 1)..Len(lines)} \ {<<>>}

\* The value at position ij of the matrix of a type (g or h) in column j, from the
\* records: zero when no record of the type names the position.
RecordedValue(recs, type, ij, j) ==
    LET named == {w \in recs : /\ w[1] = <<type>>
                               /\ StrInt(w[2]).val = ij[1]
                               /\ StrInt(w[3]).val = ij[2]}
    IN  IF named = {} THEN 0 ELSE StrFloat((CHOOSE w \in named : TRUE)[3 + j]).val

\* C16 (SpecImport): in a model import_igrf_txt returned, every C and S has the shape
\* (maxN + 1) x (maxM + 1) of the largest n and m of the records, C[n, m] is the
\* value of the record g n m in the column of the entry, S[n, m] that of the record
\* h n m, and every position no such record names is zero.
C16_RecordsScattered ==
    (outcome.op = "import_igrf_txt" /\ outcome.err = NoError)
    => LET recs == Records(txtfile.data)
           shape == <<Max({StrInt(w[2]).val : w \in recs}) + 1,
                      Max({StrInt(w[3]).val : w \in recs}) + 1>>
       IN  \A j \in 1..Len(made.coeffs) :
              /\ made.coeffs[j].set.C.shape = shape
              /\ made.coeffs[j].set.S.shape = shape
              /\ DOMAIN made.coeffs[j].set.C.a = Indices(shape)
              /\ \A ij \in Indices(shape) :
                    /\ made.coeffs[j].set.C.a[ij] = RecordedValue(recs, "g", ij, j)
                    /\ made.coeffs[j].set.S.a[ij] = RecordedValue(recs, "h", ij, j)

\* An import of records up to degree 2 and order 2, g and h.
C16_Witness ==
    /\ outcome.op = "import_igrf_txt"
    /\ outcome.err = NoError
    /\ Len(made.coeffs) = 3
    /\ made.coeffs[1].set.C.shape = <<3, 3>>
    /\ made.coeffs[3].set.S.a[<<2, 1>>] # 0

\* C17 (SpecImport): import_igrf_txt of a path whose name is not igrf, two digits,
\* coeffs.txt raises ValueError, returns nothing, opens no stream and reads no line.
C17_NameCheckedFirst ==
    (/\ outcome.op = "import_igrf_txt"
     /\ \A a, b \in {Digits[i] : i \in 1..10} : path.name # <<"igrf", a, b, "coeffs", ".txt">>)
    => (/\ outcome.err = "ValueError"
        /\ made = None
        /\ io.opened = {}
        /\ io.lines = 0)

\* An import refused for its name, of a resource that is there and is a good text.
C17_Witness ==
    /\ outcome.op = "import_igrf_txt"
    /\ outcome.err = "ValueError"
    /\ path.name = <<"igrf", "1", "2", "coeffs", ".txt", ".bak">>
    /\ txtfile.exists
    /\ txtfile.data # <<>>
    /\ io.opened = {}

\* C18 (SpecImport): the import through a URL that is not a file of a text that a
\* local import of the same name accepts returns the model the local import returns.
C18_RemoteAsLocal ==
    (/\ outcome.op = "import_igrf_txt"
     /\ ~IsLocal(path.scheme)
     /\ \E d \in Dates :
           import_igrf_txt([scheme |-> "", name |-> path.name], txtfile, d).err = NoError)
    => (/\ outcome.err = NoError
        /\ \E d \in Dates :
              made = import_igrf_txt([scheme |-> "", name |-> path.name], txtfile, d).wmmdata)

RECURSIVE FirstNonEmpty(_, _)
FirstNonEmpty(lines, i) ==
    IF i > Len(lines) THEN 0
    ELSE IF Strip(lines[i]) # <<>> THEN i
    ELSE FirstNonEmpty(lines, i + 1)

\* C20 (SpecHand): MetaData.load of a file succeeds only when the first line that is
\* not blank is 'WMMF-1' or 'WMMF-2' (up to white space at its end) and raises
\* RuntimeError when that line is anything else; after a load that succeeded
\* FORMAT_VERSION is the 1 or the 2 of that line, whatever the other lines hold.
C20_FormatVersion ==
    (outcome.op = "MetaData.load" /\ txtfile.exists)
    => LET k == FirstNonEmpty(txtfile.data, 1)
           first == IF k = 0 THEN <<>> ELSE RStrip(txtfile.data[k])
       IN  /\ outcome.err = NoError
                => /\ first \in {<<"WMMF-", "1">>, <<"WMMF-", "2">>}
                   /\ first = <<"WMMF-", "1">> => local_metadata.FORMAT_VERSION = 1
                   /\ first = <<"WMMF-", "2">> => local_metadata.FORMAT_VERSION = 2
           /\ (k # 0 /\ first \notin {<<"WMMF-", "1">>, <<"WMMF-", "2">>})
                => outcome.err = "RuntimeError"

\* A line of a metadata file that names something other than a field of MetaData: a
\* name MetaData does not have, or the name of one of its methods.
NamesNoField(line) ==
    LET words == Split(BeforeHash(line))
    IN  /\ words # <<>>
        /\ ~(Len(words[1]) = 1 /\ words[1][1] \in DataFields \cup ClassAttrs)
NamesField(line) == ~NamesNoField(line)

\* C21 (SpecHand): MetaData.load of a file ends as the load of the same file without
\* the lines that name an unknown field or a method: same error or none, same
\* fields; when it ends without error it has warned once for each of those lines.
C21_UnknownNamesSkipped ==
    (outcome.op = "MetaData.load" /\ txtfile.exists /\ txtfile.data # <<>>)
    => LET body == Tail(txtfile.data)
           kept == SelectSeq(body, NamesField)
           r == MetaLoad(DefaultMetaData, File(<<txtfile.data[1]>> \o kept))
       IN  /\ outcome.err = r.err
           /\ local_metadata = r.md
           /\ outcome.err = NoError
                => Len(outcome.warns) = Len(r.warns) + Len(body) - Len(kept)

\* C22 (SpecQuery): get_years() of a metadata with NumModels >= 0 returns the list
\* Epoch, Epoch + DeltaEpoch, ... of NumModels entries, the empty list when
\* NumModels is 0, for every Epoch and DeltaEpoch.
C22_GetYears ==
    (outcome.op = "get_years" /\ metadata.NumModels >= 0)
    => (/\ outcome.err = NoError
        /\ returned = [i \in 1..metadata.NumModels |->
                          metadata.Epoch + (i - 1) * metadata.DeltaEpoch])

\* What get_id() is to return: ID when it is set and not 'N/A'; otherwise 'IGRFdd-A'
\* for a Name 'igrfdd' of six characters, and 'N/A' for any other Name.
ExpectedId(md) ==
    IF md.ID # <<>> /\ md.ID # NA THEN md.ID
    ELSE IF Len(md.Name) = 6 /\ SubSeq(md.Name, 1, 4) = <<"i", "g", "r", "f">>
    THEN <<"I", "G", "R", "F", md.Name[5], md.Name[6], "-", "A">>
    ELSE NA

\* C23 (SpecQuery), as stated: get_id() returns ID when it is set and not 'N/A',
\* otherwise the upper-case Name with '-A' for an IGRF name of length 6 and 'N/A'
\* for any other; and for a metadata loaded from a file with an ID line it is ID.
C23_GetIdOfLoaded ==
    outcome.op = "get_id"
    => (/\ outcome.err = NoError
        /\ returned = ExpectedId(metadata)
        /\ txtfile.exists => returned = metadata.ID)

\* C23 (SpecQuery), amended: get_id() returns ID when it is set and not 'N/A',
\* otherwise the upper-case Name with '-A' for an IGRF name of length 6 and 'N/A'
\* for any other; for a metadata loaded from a file whose ID line gives a value
\* other than 'N/A' it is ID.
C23_GetId ==
    outcome.op = "get_id"
    => (/\ outcome.err = NoError
        /\ returned = ExpectedId(metadata)
        /\ (txtfile.exists /\ metadata.ID # NA) => returned = metadata.ID)

\* get_id() of a metadata loaded from a file that names igrf12 and gives the ID of
\* igrf11: the ID of the file is returned.
C23_Witness ==
    /\ outcome.op = "get_id"
    /\ txtfile.exists
    /\ metadata.Name = Igrf12
    /\ metadata.ID = Igrf11Id
    /\ returned = Igrf11Id

\* The ordinal ending of a generation number.
OrdinalEnding(n) ==
    IF n = 1 THEN <<"st Generation">>
    ELSE IF n = 2 THEN <<"nd Generation">>
    ELSE IF n = 3 THEN <<"rd Generation">>
    ELSE <<"th Generation">>

\* C24 (SpecQuery): str(metadata) succeeds for every Name; its Description line holds
\* the Description unchanged when it is not the default text, and the default text
\* followed by '<N><ordinal> Generation', N being the two last characters of Name
\* as a number minus one, when it is.
C24_GenerationSuffix ==
    outcome.op = "__str__"
    => (/\ outcome.err = NoError
        /\ LET name == metadata.Name
               k == Len(name)
               twoDigits == k >= 2 /\ IsDigit(name[k - 1]) /\ IsDigit(name[k])
               n == 10 * DigitVal(name[k - 1]) + DigitVal(name[k]) - 1
           IN  /\ metadata.Description # DefaultDescription
                    => returned[6] = <<"Description">> \o Spaces(5) \o metadata.Description
               /\ (metadata.Description = DefaultDescription /\ twoDigits)
                    => returned[6] = <<"Description">> \o Spaces(5) \o DefaultDescription
                                        \o <<" ">> \o IntStr(n) \o OrdinalEnding(n))

\* C26 (SpecPack): _save_sph_coeff_set of a pair whose C and S are zero everywhere
\* ends without error and writes the block N = 0, M = 0, one C value 0, no S value.
C26_ZeroSetSaved ==
    (/\ outcome.op = "_save_sph_coeff_set"
     /\ Len(cset.C.shape) = 2
     /\ cset.C.shape = cset.S.shape
     /\ cset.C.shape[2] <= cset.C.shape[1]
     /\ \A ij \in DOMAIN cset.C.a : cset.C.a[ij] = 0 /\ cset.S.a[ij] = 0)
    => (/\ outcome.err = NoError
        /\ binfile = File(<<I32(0), I32(0), F64(0)>>))

\* The names the lines of a metadata file give, after its first line.
NamedFields(lines) ==
    {Split(BeforeHash(lines[i]))[1][1] :
        i \in {j \in 2..Len(lines) : Split(BeforeHash(lines[j])) # <<>>}}

\* C27 (Spec): a WmmData.load changes, in the metadata of the object, only
\* FORMAT_VERSION and the fields that lines of the metadata file name; every other
\* field keeps the value it had before the call.
C27_LoadKeepsOtherFields ==
    [][outcome'.op = "WmmData.load"
         => \A f \in (DataFields \cup ClassAttrs)
                        \ ({"FORMAT_VERSION"} \cup NamedFields(txtfile.data)) :
                metadata'[f] = metadata[f]]_vars

\* A load of the hand-written file, which has no ID line, that succeeded: the ID
\* the caller had set is still there.
C27_Witness ==
    /\ outcome.op = "WmmData.load"
    /\ outcome.err = NoError
    /\ txtfile = File(HandText)
    /\ metadata.ID = Igrf12Id
    /\ metadata.ID # DefaultMetaData.ID

\* C28 (Spec): when the metadata file of a WmmData.load is read without error and
\* the reading of the binary file raises, the call raises, metadata holds what the
\* load of the metadata file gave and coeffs is the mapping of before the call.
C28_LoadNotRolledBack ==
    [][(/\ outcome'.op = "WmmData.load"
        /\ MetaLoad(metadata, txtfile).err = NoError
        /\ load_sph_coeffs(MetaLoad(metadata, txtfile).md, binfile).err # NoError)
       => (/\ outcome'.err # NoError
           /\ metadata' = MetaLoad(metadata, txtfile).md
           /\ coeffs' = coeffs)]_vars

\* A model of two epochs after a load that read a metadata file of one epoch and
\* failed on the binary file: three entries are held where the metadata asks for
\* two, and no _check has been run.
C28_Witness ==
    /\ outcome.op = "WmmData.load"
    /\ outcome.err = "RuntimeError"
    /\ metadata.NumModels = 1
    /\ Len(coeffs) = 3
    /\ check(metadata, coeffs) # NoError

\* C29 (Spec): a WmmData.load into an object whose ID is 'N/A', of a metadata file
\* without ID line, raises and leaves coeffs alone whatever the binary file holds,
\* also when its first 8 bytes are the get_id() of the loaded metadata; and a
\* WmmData.load of the pair a WmmData.save of a model that passes _check has just
\* written ends without error.
C29_RawIdCompared ==
    [][/\ (/\ outcome'.op = "WmmData.load"
           /\ metadata.ID = NA
           /\ txtfile.exists
           /\ "ID" \notin NamedFields(txtfile.data))
          => (outcome'.err # NoError /\ coeffs' = coeffs)
       /\ (/\ outcome.op = "WmmData.save"
           /\ outcome.err = NoError
           /\ check(metadata, coeffs) = NoError
           /\ outcome'.op = "WmmData.load")
          => outcome'.err = NoError]_vars

\* The URL starts with the base URL, without its trailing slashes, and ends with
\* the extension of the archive type.
BuiltFrom(url, base_url, archive_type) ==
    LET prefix == RStripSlash(base_url)
    IN  /\ Len(url) > Len(prefix)
        /\ SubSeq(url, 1, Len(prefix)) = prefix
        /\ url[Len(url)] = archive_type

\* C25: for every installable argument of install (a model, a model type or a
\* group), when base_url and archive_type are given every URL install downloads is
\* built from that base_url and ends with the extension of that archive type.
C25_InstallUsesArguments ==
    (outcome.op = "install" /\ outcome.args.base_url # NoBaseUrl)
        => \A url \in downloaded :
              BuiltFrom(url, outcome.args.base_url, outcome.args.archive_type)

\* C30: cli.test leaves GEOGRAPHICLIB_DATA as it was before the call and returns
\* the result of the test suite (or lets its exception through), whether the
\* variable was set or not, datadir given or not, and the suite passes, fails or
\* raises.
C30_EnvironRestored ==
    outcome.op = "cli.test"
        => /\ environ = outcome.args.environ
           /\ IF outcome.args.suite = "raise"
              THEN outcome.err = "SuiteError"
              ELSE /\ outcome.err = NoError
                   /\ returned = [int |-> SuiteResult(outcome.args.suite)]

====
